---------------------------- MODULE Spec2Model ----------------------------
(***************************************************************************)
(* A model of colossalai/pipeline/p2p.py: the point-to-point exchange of   *)
(* tensors, lists and dicts of tensors and arbitrary picklable objects     *)
(* between two neighbouring pipeline stages.                               *)
(*                                                                         *)
(* Python values are records with a "type" field.  Byte strings are         *)
(* sequences of integers in 0..255.  A torch.Tensor is its shape, dtype,    *)
(* requires_grad flag, device and an abstract identifier of its contents    *)
(* (0 for the uninitialised contents of torch.empty).                       *)
(***************************************************************************)
EXTENDS Integers, Sequences, FiniteSets, TLC

(***************************************************************************)
(* Bounds of the model.                                                    *)
(***************************************************************************)
\* torch.cuda.current_device() of the second stage ranges over 0..MaxDeviceIndex
MaxDeviceIndex == 1
\* the byte streams of the rewrite specification are made of at most this many pieces
MaxPieces == 3
\* the local device index in the rewrite specification ranges over 0..MaxRewriteIndex
MaxRewriteIndex == 10

\* the number of calls a stage makes one after the other
MaxCalls == 2

(***************************************************************************)
(* Python values.                                                          *)
(***************************************************************************)
None == [type |-> "NoneType"]

IsNone(x) == x.type = "NoneType"

PyInt(n) == [type |-> "int", n |-> n]

PyStr(chars) == [type |-> "str", chars |-> chars]

\* an object pickle cannot serialise (a local function, say)
Unpicklable == [type |-> "function"]

PyList(items) == [type |-> "list", items |-> items]

PyTuple(items) == [type |-> "tuple", items |-> items]

\* a dict is its (key, value) pairs in insertion order
PyDict(items) == [type |-> "dict", items |-> items]

Item(k, v) == [key |-> k, value |-> v]

\* the dict built by inserting keys[i] -> values[i] in order, as the comprehension
\* {k: v for k, v in zip(keys, values)} and the unpickler do: a key met again
\* keeps its place and takes the later value
RECURSIVE DictOfZip(_, _, _)
DictOfZip(keys, values, acc) ==
    IF keys = <<>> \/ values = <<>> THEN PyDict(acc)
    ELSE LET same == {i \in 1..Len(acc) : acc[i].key = Head(keys)} IN
         DictOfZip(Tail(keys), Tail(values),
                   IF same = {} THEN Append(acc, Item(Head(keys), Head(values)))
                   ELSE [i \in 1..Len(acc) |->
                            IF i \in same THEN Item(acc[i].key, Head(values)) ELSE acc[i]])

Cuda(index) == [type |-> "cuda", index |-> index]

Cpu == [type |-> "cpu", index |-> 0]

Tensor(shape, dtype, requires_grad, device, data) ==
    [type |-> "Tensor", shape |-> shape, dtype |-> dtype,
     requires_grad |-> requires_grad, device |-> device, data |-> data]

IsTensor(x) == x.type = "Tensor"

RECURSIVE Product(_)
Product(shape) ==
    IF shape = <<>> THEN 1 ELSE Head(shape) * Product(Tail(shape))

\* torch.Tensor.numel()
Numel(t) == Product(t.shape)

\* torch.empty(shape, requires_grad=..., device=..., dtype=...)
TorchEmpty(shape, requires_grad, device, dtype) ==
    Tensor(shape, dtype, requires_grad, device, 0)

(***************************************************************************)
(* TensorMetadata, P2PDataType and P2PMetadata.                            *)
(***************************************************************************)
TensorMetadata(key, shape, dtype, requires_grad) ==
    [type |-> "TensorMetadata", key |-> key, shape |-> shape, dtype |-> dtype,
     requires_grad |-> requires_grad]

P2PDataType == {"Serialization", "Tensor", "List", "Dict"}

P2PMetadata(data_type, content) ==
    [type |-> "P2PMetadata", data_type |-> data_type, content |-> content]

(***************************************************************************)
(* _check_if_fast_send_available                                           *)
(***************************************************************************)
CheckIfFastSendAvailable(object) ==
    IF object.type = "Tensor" THEN TRUE
    ELSE IF object.type = "list"
         THEN \A i \in 1..Len(object.items) : IsTensor(object.items[i])
    ELSE IF object.type = "dict"
         THEN \A i \in 1..Len(object.items) :
                 /\ object.items[i].key.type = "str"
                 /\ IsTensor(object.items[i].value)
    ELSE FALSE

(***************************************************************************)
(* create_fast_send_metadata: called only when the object is fast-send      *)
(* available (the assertion of its first line), so its last branch is       *)
(* never taken.                                                             *)
(***************************************************************************)
CreateFastSendMetadata(object) ==
    IF object.type = "Tensor"
    THEN P2PMetadata("Tensor",
             TensorMetadata(None, object.shape, object.dtype, object.requires_grad))
    ELSE IF object.type = "list"
    THEN P2PMetadata("List",
             PyList([i \in 1..Len(object.items) |->
                     TensorMetadata(None, object.items[i].shape,
                                    object.items[i].dtype,
                                    object.items[i].requires_grad)]))
    ELSE P2PMetadata("Dict",
             PyList([i \in 1..Len(object.items) |->
                     TensorMetadata(object.items[i].key,
                                    object.items[i].value.shape,
                                    object.items[i].value.dtype,
                                    object.items[i].value.requires_grad)]))

(***************************************************************************)
(* create_recv_buffer: one uninitialised tensor for Tensor metadata, a list *)
(* of them in descriptor order for List and Dict metadata.  The caller      *)
(* never passes Serialization metadata (it would raise ValueError).         *)
(***************************************************************************)
CreateRecvBufferWithoutGrad(p2p_metadata, current_device) ==
    IF p2p_metadata.data_type = "Tensor"
    THEN TorchEmpty(p2p_metadata.content.shape, FALSE, current_device,
                    p2p_metadata.content.dtype)
    ELSE PyList([i \in 1..Len(p2p_metadata.content.items) |->
                 TorchEmpty(p2p_metadata.content.items[i].shape, FALSE, current_device,
                            p2p_metadata.content.items[i].dtype)])

CreateRecvBuffer(p2p_metadata, current_device) ==
    IF p2p_metadata.data_type = "Tensor"
    THEN TorchEmpty(p2p_metadata.content.shape, p2p_metadata.content.requires_grad,
                    current_device, p2p_metadata.content.dtype)
    ELSE PyList([i \in 1..Len(p2p_metadata.content.items) |->
                 TorchEmpty(p2p_metadata.content.items[i].shape,
                            p2p_metadata.content.items[i].requires_grad,
                            current_device,
                            p2p_metadata.content.items[i].dtype)])

(***************************************************************************)
(* The object <-> bytes codec (pickle, c10d._object_to_tensor).  It is a    *)
(* library of the program's environment; the model keeps of it what the    *)
(* program relies on: a stream is a sequence of opcodes with their         *)
(* operands, a str is written as its length and its characters, a tensor   *)
(* as its fields followed by its location tag, the str "cuda:<index>" or   *)
(* "cpu", and a stream ends with a STOP opcode.                            *)
(***************************************************************************)
Opcode ==
    [none |-> 1, int |-> 2, str |-> 3, list |-> 4, tuple |-> 5, dict |-> 6,
     tensor |-> 7, tensor_metadata |-> 8, p2p_metadata |-> 9, stop |-> 10]

DTypeCode(dtype) == IF dtype = "float16" THEN 1 ELSE 2

DataTypeCode(data_type) ==
    CASE data_type = "Serialization" -> 0
      [] data_type = "Tensor" -> 1
      [] data_type = "List" -> 2
      [] OTHER -> 3

\* the characters c, u, d, a, ":", p and "0" in ASCII
Chars == [c |-> 99, u |-> 117, d |-> 100, a |-> 97, colon |-> 58, p |-> 112, zero |-> 48]

BoolCode(b) == IF b THEN 1 ELSE 0

\* the decimal digits of a device index below 100
Digits(n) ==
    IF n < 10 THEN <<Chars.zero + n>>
    ELSE <<Chars.zero + (n \div 10), Chars.zero + (n % 10)>>

\* str(device): "cuda:<index>" or "cpu"
LocationTag(device) ==
    IF device.type = "cuda"
    THEN <<Chars.c, Chars.u, Chars.d, Chars.a, Chars.colon>> \o Digits(device.index)
    ELSE <<Chars.c, Chars.p, Chars.u>>

RECURSIVE Picklable(_)
Picklable(object) ==
    CASE object.type = "function" -> FALSE
      [] object.type \in {"list", "tuple"} ->
            \A i \in 1..Len(object.items) : Picklable(object.items[i])
      [] object.type = "dict" ->
            \A i \in 1..Len(object.items) :
                Picklable(object.items[i].key) /\ Picklable(object.items[i].value)
      [] object.type = "P2PMetadata" -> Picklable(object.content)
      [] OTHER -> TRUE

RECURSIVE Pickle(_)
RECURSIVE PickleAll(_)
PickleAll(items) ==
    IF items = <<>> THEN <<>> ELSE Pickle(Head(items)) \o PickleAll(Tail(items))

RECURSIVE PickleItems(_)
PickleItems(items) ==
    IF items = <<>> THEN <<>>
    ELSE Pickle(Head(items).key) \o Pickle(Head(items).value) \o PickleItems(Tail(items))

Pickle(object) ==
    CASE object.type = "NoneType" -> <<Opcode.none>>
      [] object.type = "int" -> <<Opcode.int, object.n>>
      [] object.type = "str" -> <<Opcode.str, Len(object.chars)>> \o object.chars
      [] object.type = "list" ->
            <<Opcode.list, Len(object.items)>> \o PickleAll(object.items)
      [] object.type = "tuple" ->
            <<Opcode.tuple, Len(object.items)>> \o PickleAll(object.items)
      [] object.type = "dict" ->
            <<Opcode.dict, Len(object.items)>> \o PickleItems(object.items)
      [] object.type = "Tensor" ->
            <<Opcode.tensor, Len(object.shape)>> \o object.shape
            \o <<DTypeCode(object.dtype), BoolCode(object.requires_grad), object.data>>
            \o Pickle(PyStr(LocationTag(object.device)))
      [] object.type = "TensorMetadata" ->
            <<Opcode.tensor_metadata>> \o Pickle(object.key)
            \o <<Len(object.shape)>> \o object.shape
            \o <<DTypeCode(object.dtype), BoolCode(object.requires_grad)>>
      [] OTHER ->
            <<Opcode.p2p_metadata, DataTypeCode(object.data_type)>>
            \o Pickle(object.content)

\* pickle.dumps
Dumps(object) == Pickle(object) \o <<Opcode.stop>>

(***************************************************************************)
(* The unpickler: a recursive descent over the stream from position pos.   *)
(* It answers [ok, val, pos], pos being the position after the value; a    *)
(* stream it cannot read raises an UnpicklingError (ok is FALSE).          *)
(***************************************************************************)
LoadFail == [ok |-> FALSE, val |-> None, pos |-> 0]

Loaded(val, pos) == [ok |-> TRUE, val |-> val, pos |-> pos]

IsDigit(b) == b >= Chars.zero /\ b <= Chars.zero + 9

\* torch.device(tag) of a location tag; ok is FALSE for a tag torch rejects
ParseLocation(chars) ==
    LET prefix == <<Chars.c, Chars.u, Chars.d, Chars.a, Chars.colon>> IN
    IF chars = <<Chars.c, Chars.p, Chars.u>> THEN [ok |-> TRUE, device |-> Cpu]
    ELSE IF Len(chars) = 6 /\ SubSeq(chars, 1, 5) = prefix /\ IsDigit(chars[6])
    THEN [ok |-> TRUE, device |-> Cuda(chars[6] - Chars.zero)]
    ELSE IF Len(chars) = 7 /\ SubSeq(chars, 1, 5) = prefix
            /\ IsDigit(chars[6]) /\ IsDigit(chars[7]) /\ chars[6] # Chars.zero
    THEN [ok |-> TRUE,
          device |-> Cuda(10 * (chars[6] - Chars.zero) + (chars[7] - Chars.zero))]
    ELSE [ok |-> FALSE, device |-> Cpu]

DTypeOf(code) == IF code = 1 THEN "float16" ELSE "float32"

DataTypeOf(code) ==
    CASE code = 0 -> "Serialization"
      [] code = 1 -> "Tensor"
      [] code = 2 -> "List"
      [] OTHER -> "Dict"

RECURSIVE Load(_, _)
RECURSIVE LoadAll(_, _, _, _)
\* n values from pos on, appended to acc
LoadAll(buf, pos, n, acc) ==
    IF n = 0 THEN Loaded(acc, pos)
    ELSE LET r == Load(buf, pos) IN
         IF ~r.ok THEN [ok |-> FALSE, val |-> <<>>, pos |-> 0]
         ELSE LoadAll(buf, r.pos, n - 1, Append(acc, r.val))

RECURSIVE LoadItems(_, _, _, _)
\* n (key, value) pairs from pos on, appended to acc
LoadItems(buf, pos, n, acc) ==
    IF n = 0 THEN Loaded(acc, pos)
    ELSE LET k == Load(buf, pos) IN
         IF ~k.ok THEN [ok |-> FALSE, val |-> <<>>, pos |-> 0]
         ELSE LET v == Load(buf, k.pos) IN
              IF ~v.ok THEN [ok |-> FALSE, val |-> <<>>, pos |-> 0]
              ELSE LoadItems(buf, v.pos, n - 1, Append(acc, Item(k.val, v.val)))

LoadTensor(buf, pos) ==
    IF pos + 1 > Len(buf) THEN LoadFail
    ELSE LET rank == buf[pos + 1]
             after == pos + 2 + rank
         IN IF after + 2 > Len(buf) THEN LoadFail
            ELSE IF buf[after] \notin {1, 2} \/ buf[after + 1] \notin {0, 1} THEN LoadFail
            ELSE LET tag == Load(buf, after + 3) IN
                 IF ~tag.ok THEN LoadFail
                 ELSE IF tag.val.type # "str" THEN LoadFail
                 ELSE LET loc == ParseLocation(tag.val.chars) IN
                      IF ~loc.ok THEN LoadFail
                      ELSE Loaded(Tensor(SubSeq(buf, pos + 2, after - 1),
                                         DTypeOf(buf[after]), buf[after + 1] = 1,
                                         loc.device, buf[after + 2]),
                                  tag.pos)

LoadTensorMetadata(buf, pos) ==
    LET key == Load(buf, pos + 1) IN
    IF ~key.ok THEN LoadFail
    ELSE IF key.val.type \notin {"NoneType", "str", "int"} THEN LoadFail
    ELSE IF key.pos > Len(buf) THEN LoadFail
    ELSE LET rank == buf[key.pos]
             after == key.pos + 1 + rank
         IN IF after + 1 > Len(buf) THEN LoadFail
            ELSE IF buf[after] \notin {1, 2} \/ buf[after + 1] \notin {0, 1} THEN LoadFail
            ELSE Loaded(TensorMetadata(key.val, SubSeq(buf, key.pos + 1, after - 1),
                                       DTypeOf(buf[after]), buf[after + 1] = 1),
                        after + 2)

LoadP2PMetadata(buf, pos) ==
    IF pos + 1 > Len(buf) THEN LoadFail
    ELSE IF buf[pos + 1] \notin 0..3 THEN LoadFail
    ELSE LET content == Load(buf, pos + 2) IN
         IF ~content.ok THEN LoadFail
         ELSE Loaded(P2PMetadata(DataTypeOf(buf[pos + 1]), content.val), content.pos)

Load(buf, pos) ==
    IF pos > Len(buf) THEN LoadFail
    ELSE CASE buf[pos] = Opcode.none -> Loaded(None, pos + 1)
           [] buf[pos] = Opcode.int ->
                 IF pos + 1 > Len(buf) THEN LoadFail
                 ELSE Loaded(PyInt(buf[pos + 1]), pos + 2)
           [] buf[pos] = Opcode.str ->
                 IF pos + 1 > Len(buf) THEN LoadFail
                 ELSE IF pos + 1 + buf[pos + 1] > Len(buf) THEN LoadFail
                 ELSE Loaded(PyStr(SubSeq(buf, pos + 2, pos + 1 + buf[pos + 1])),
                             pos + 2 + buf[pos + 1])
           [] buf[pos] \in {Opcode.list, Opcode.tuple} ->
                 IF pos + 1 > Len(buf) THEN LoadFail
                 ELSE LET r == LoadAll(buf, pos + 2, buf[pos + 1], <<>>) IN
                      IF ~r.ok THEN LoadFail
                      ELSE Loaded(IF buf[pos] = Opcode.list THEN PyList(r.val)
                                  ELSE PyTuple(r.val), r.pos)
           [] buf[pos] = Opcode.dict ->
                 IF pos + 1 > Len(buf) THEN LoadFail
                 ELSE LET r == LoadItems(buf, pos + 2, buf[pos + 1], <<>>) IN
                      IF ~r.ok THEN LoadFail
                      ELSE Loaded(DictOfZip([i \in 1..Len(r.val) |-> r.val[i].key],
                                            [i \in 1..Len(r.val) |-> r.val[i].value],
                                            <<>>),
                                  r.pos)
           [] buf[pos] = Opcode.tensor -> LoadTensor(buf, pos)
           [] buf[pos] = Opcode.tensor_metadata -> LoadTensorMetadata(buf, pos)
           [] buf[pos] = Opcode.p2p_metadata -> LoadP2PMetadata(buf, pos)
           [] OTHER -> LoadFail

\* pickle.Unpickler(io.BytesIO(buf)).load(): the value up to the STOP opcode
Loads(buf) ==
    LET r == Load(buf, 1) IN
    IF r.ok /\ r.pos <= Len(buf) /\ buf[r.pos] = Opcode.stop
    THEN [ok |-> TRUE, val |-> r.val]
    ELSE [ok |-> FALSE, val |-> None]

(***************************************************************************)
(* _cuda_safe_tensor_to_object.  re.finditer scans the bytearray lazily    *)
(* while the loop body writes into it: the scan resumes after the token    *)
(* just found and sees the byte the body has written.  A token within the  *)
(* last five bytes makes the write raise IndexError (ok is FALSE).         *)
(***************************************************************************)
CudaToken == <<Chars.c, Chars.u, Chars.d, Chars.a>>

\* the byte written at the device index: 48 + device_index
DeviceByte(device_index) == 48 + device_index

\* the offset from the start of the token to the byte written
IndexOffset == 5

RECURSIVE RewriteFrom(_, _, _)
RewriteFrom(buf_array, start, device_index) ==
    IF start + 3 > Len(buf_array) THEN [ok |-> TRUE, buf |-> buf_array]
    ELSE IF SubSeq(buf_array, start, start + 3) = CudaToken
    THEN IF start + IndexOffset > Len(buf_array)
         THEN [ok |-> FALSE, buf |-> buf_array]
         ELSE RewriteFrom([buf_array EXCEPT ![start + IndexOffset] = DeviceByte(device_index)],
                          start + 4, device_index)
    ELSE RewriteFrom(buf_array, start + 1, device_index)

\* lines 34-42: the bytes handed to the unpickler
CudaSafeBytes(tensor, tensor_size, device_index) ==
    RewriteFrom(SubSeq(tensor, 1, tensor_size), 1, device_index)

CudaSafeTensorToObject(tensor, tensor_size, device_index) ==
    LET rewritten == CudaSafeBytes(tensor, tensor_size, device_index) IN
    IF ~rewritten.ok THEN [ok |-> FALSE, val |-> None]
    ELSE Loads(rewritten.buf)

(***************************************************************************)
(* The state.  Two pipeline stages, each running one call of               *)
(* PipelineP2PCommunication (or of _communicate itself).                   *)
(***************************************************************************)
VARIABLES
    env,                \* the transport: [rendezvous, p2p_nccl, default_nccl]
    device_index,       \* torch.cuda.current_device() of each stage
    call,               \* the operation each stage calls, with its arguments
    pc,                 \* where each stage is in its call
    frame,              \* the arguments of the _communicate invocation running
    part,               \* "whole", or the "send" / "recv" sub-call of a split call
    cont,               \* the receive sub-call waiting for the send sub-call to return
    metadata_recv,      \* the local metadata_recv of _communicate
    send_object_tensor, \* the bytes serialised in the length round
    recv_buffer,        \* the buffers the pending receives fill
    result,             \* what the call returned
    error,              \* the exception the call raised
    log,                \* the transport operations each stage has issued, in order
    chan,               \* per (source, destination): the sends not yet received
    posted,             \* per stage: the receives issued and not yet completed
    received,           \* per stage: what the completed receives of the batch got
    rw,                 \* the rewrite specification: a byte stream and its rewriting
    heap                \* per stage: the tensor objects created, by identity

vars == <<env, device_index, call, pc, frame, part, cont, metadata_recv,
          send_object_tensor, recv_buffer, result, error, log, chan, posted,
          received, rw, heap>>

Ranks == {"rank0", "rank1"}

NoRank == "None"

\* the stage manager of a pipeline of two stages (PipelineStageManager)
GetNextRank(p) == IF p = "rank0" THEN "rank1" ELSE "rank0"

GetPrevRank(p) == IF p = "rank0" THEN "rank1" ELSE "rank0"

GetP2PProcessGroup(first, second) ==
    [type |-> "ProcessGroup", ranks |-> {first, second}, pair |-> <<first, second>>,
     nccl |-> env.p2p_nccl]

\* check_for_nccl_backend: a group of None stands for the default group
CheckForNcclBackend(group) ==
    IF IsNone(group) THEN env.default_nccl ELSE group.nccl

\* check_device
CheckDevice(p, group) ==
    [current_device |-> IF CheckForNcclBackend(group) THEN Cuda(device_index[p]) ELSE Cpu,
     is_nccl_backend |-> CheckForNcclBackend(group)]

\* c10d._rank_not_in_group
RankNotInGroup(p, group) ==
    IF IsNone(group) THEN FALSE ELSE p \notin group.ranks

(***************************************************************************)
(* The calls.                                                              *)
(***************************************************************************)
NoFrame ==
    [object |-> None, send_dst |-> NoRank, recv_src |-> NoRank, send_group |-> None,
     recv_group |-> None, send_metadata |-> TRUE, metadata_recv |-> None]

Frame(object, send_dst, recv_src, send_group, recv_group, send_metadata, hint) ==
    [object |-> object, send_dst |-> send_dst, recv_src |-> recv_src,
     send_group |-> send_group, recv_group |-> recv_group,
     send_metadata |-> send_metadata, metadata_recv |-> hint]

\* a call of an operation of PipelineP2PCommunication
Call(op, object, rank, send_metadata, hint) ==
    [op |-> op, object |-> object, rank |-> rank, send_metadata |-> send_metadata,
     metadata_recv |-> hint, recv_pre |-> FALSE, comm_dtype |-> "float16",
     args |-> NoFrame]

\* a call of p2p_communicate
P2PCall(object, recv_pre, comm_dtype) ==
    [op |-> "p2p_communicate", object |-> object, rank |-> NoRank,
     send_metadata |-> TRUE, metadata_recv |-> None, recv_pre |-> recv_pre,
     comm_dtype |-> comm_dtype, args |-> NoFrame]

\* a direct call of _communicate
RawCall(args) ==
    [op |-> "_communicate", object |-> args.object, rank |-> NoRank,
     send_metadata |-> args.send_metadata, metadata_recv |-> args.metadata_recv,
     recv_pre |-> FALSE, comm_dtype |-> "float16", args |-> args]

NoCall == Call("none", None, NoRank, TRUE, None)

(***************************************************************************)
(* The payloads and hints the calls are made with.                         *)
(***************************************************************************)
TensorA(device) == Tensor(<<1, 2, 1>>, "float16", FALSE, device, 1)

TensorB(device) == Tensor(<<3, 1, 1>>, "float32", TRUE, device, 2)

KeyA == PyStr(<<97>>)

KeyB == PyStr(<<98>>)

\* the str "cuda:<index>"
KeyCuda(index) == PyStr(LocationTag(Cuda(index)))

FastPayloads(device) ==
    { TensorA(device),
      PyList(<<TensorA(device), TensorB(device)>>),
      PyList(<<>>),
      PyDict(<<Item(KeyB, TensorA(device)), Item(KeyA, TensorB(device))>>),
      PyDict(<<Item(KeyCuda(0), TensorA(device)), Item(KeyCuda(1), TensorB(device))>>) }

OpaquePayloads(device) ==
    { PyInt(7),
      PyTuple(<<TensorA(device), PyInt(7)>>),
      PyStr(LocationTag(Cuda(1))),
      PyList(<<TensorA(device), PyInt(7)>>),
      PyDict(<<Item(PyInt(1), TensorA(device))>>) }

Payloads(device) ==
    FastPayloads(device) \cup OpaquePayloads(device) \cup {None, Unpicklable}

\* the payloads of the combined calls
ForwardPayloads(device) ==
    { TensorA(device),
      PyDict(<<Item(KeyB, TensorA(device)), Item(KeyA, TensorB(device))>>),
      PyDict(<<Item(KeyCuda(0), TensorA(device)), Item(KeyCuda(1), TensorB(device))>>),
      PyInt(7) }

BackwardPayloads(device) ==
    { TensorB(device),
      PyList(<<TensorA(device), TensorB(device)>>),
      PyTuple(<<TensorA(device), PyInt(7)>>) }

\* Tensor metadata of the same dtype and number of elements as TensorA, of another shape
ReshapedHint == P2PMetadata("Tensor", TensorMetadata(None, <<2, 1>>, "float16", FALSE))

\* the receive hints a caller may hold for a payload: none, or its metadata
Hints(object) ==
    {None} \cup (IF CheckIfFastSendAvailable(object)
                 THEN {CreateFastSendMetadata(object)} ELSE {})
           \cup (IF object.type = "Tensor" /\ object.dtype = "float16"
                 THEN {ReshapedHint} ELSE {})

(***************************************************************************)
(* The transport (torch.distributed): dist.isend puts a message on the     *)
(* channel to its destination, dist.irecv posts a receive, and the         *)
(* receives of a stage complete in the order posted, each taking the       *)
(* oldest message of its source.  A message is the buffer sent: its group, *)
(* dtype, number of elements and contents.  req.wait() of a send returns   *)
(* once the message is buffered, or, when env.rendezvous holds, only once  *)
(* the matching receive has taken it (ncclSend).                           *)
(***************************************************************************)
Message(group, dtype, value, numel) ==
    [group |-> group.ranks, dtype |-> dtype, numel |-> numel, value |-> value]

Slot(src, group, dtype, numel) ==
    [src |-> src, group |-> group.ranks, dtype |-> dtype, numel |-> numel]

TensorMessage(group, tensor) ==
    Message(group, tensor.dtype, <<tensor.data>>, Numel(tensor))

TensorSlot(src, group, tensor) == Slot(src, group, tensor.dtype, Numel(tensor))

Event(p, event, round, numel) ==
    [event |-> event, round |-> round, part |-> part[p], numel |-> numel]

\* the log entries of a batch: one per operation, in queue order, then the issue
BatchEvents(p, round, sends, recvs) ==
    [i \in 1..Len(sends) |-> Event(p, "isend", round, sends[i].numel)]
    \o [i \in 1..Len(recvs) |-> Event(p, "irecv", round, recvs[i].numel)]
    \o (IF Len(sends) + Len(recvs) > 0
        THEN <<Event(p, "batch_isend_irecv", round, Len(sends) + Len(recvs))>>
        ELSE <<>>)

\* lines 241-250 as they would be without torch.cuda.synchronize()
WaitEventsWithoutSynchronize(p, round, had_ops) ==
    IF had_ops THEN <<Event(p, "wait", round, 0)>> ELSE <<>>

\* "for req in reqs: req.wait()" when the batch had operations, then
\* torch.cuda.synchronize()
WaitEvents(p, round, had_ops) ==
    (IF had_ops THEN <<Event(p, "wait", round, 0)>> ELSE <<>>)
    \o <<Event(p, "synchronize", round, 0)>>

\* dist.batch_isend_irecv(ops), for the sends to dst and the receives of ops
IssueBatch(p, dst, sends, recvs) ==
    /\ chan' = IF sends = <<>> THEN chan
               ELSE [chan EXCEPT ![<<p, dst>>] = @ \o sends]
    /\ posted' = [posted EXCEPT ![p] = recvs]
    /\ received' = [received EXCEPT ![p] = <<>>]

\* every req.wait() of the batch has returned
BatchComplete(p) ==
    /\ posted[p] = <<>>
    /\ env.rendezvous => \A q \in Ranks : chan[<<p, q>>] = <<>>

Matches(slot, message) ==
    /\ slot.dtype = message.dtype
    /\ slot.numel = message.numel

\* the oldest posted receive of p takes the oldest message of its source
Deliver(p) ==
    /\ posted[p] # <<>>
    /\ LET slot == Head(posted[p]) IN
       /\ chan[<<slot.src, p>>] # <<>>
       /\ LET message == Head(chan[<<slot.src, p>>]) IN
          /\ message.group = slot.group
          /\ Matches(slot, message)
          /\ received' = [received EXCEPT ![p] = Append(@, message.value)]
          /\ posted' = [posted EXCEPT ![p] = Tail(@)]
          /\ chan' = [chan EXCEPT ![<<slot.src, p>>] = Tail(@)]
    /\ UNCHANGED <<env, device_index, call, pc, frame, part, cont, metadata_recv,
                   send_object_tensor, recv_buffer, result, error, log, rw, heap>>

\* a receive whose buffer does not fit the message: the transport fails the call
\* (it may as well hang: the action need not be taken)
TransportFault(p) ==
    /\ posted[p] # <<>>
    /\ pc[p] \notin {"raised", "done"}
    /\ LET slot == Head(posted[p]) IN
       /\ chan[<<slot.src, p>>] # <<>>
       /\ Head(chan[<<slot.src, p>>]).group = slot.group
       /\ ~Matches(slot, Head(chan[<<slot.src, p>>]))
    /\ pc' = [pc EXCEPT ![p] = "raised"]
    /\ error' = [error EXCEPT ![p] = "transport"]
    /\ UNCHANGED <<env, device_index, call, frame, part, cont, metadata_recv,
                   send_object_tensor, recv_buffer, result, log, chan, posted,
                   received, rw, heap>>

\* an exception leaves the call
Raise(p, exception) ==
    /\ pc' = [pc EXCEPT ![p] = "raised"]
    /\ error' = [error EXCEPT ![p] = exception]

(***************************************************************************)
(* The operations of PipelineP2PCommunication: each resolves its peer and  *)
(* group and calls _communicate (through _send_object and _recv_object) or *)
(* _p2p_comm.                                                              *)
(***************************************************************************)
RankOr(rank, default) == IF rank = NoRank THEN default ELSE rank

\* the operations as they would be were every group requested for (cur_rank, peer)
EndpointFrameOfOwnRankFirst(p) ==
    LET c == call[p]
        prev_rank == RankOr(c.rank, GetPrevRank(p))
        next_rank == RankOr(c.rank, GetNextRank(p))
    IN CASE c.op = "recv_forward" ->
              Frame(None, NoRank, prev_rank, None, GetP2PProcessGroup(p, prev_rank),
                    TRUE, c.metadata_recv)
         [] c.op = "recv_backward" ->
              Frame(None, NoRank, next_rank, None, GetP2PProcessGroup(p, next_rank),
                    TRUE, c.metadata_recv)
         [] c.op = "send_forward" ->
              Frame(c.object, next_rank, NoRank, GetP2PProcessGroup(p, next_rank), None,
                    c.send_metadata, None)
         [] c.op = "send_backward" ->
              Frame(c.object, prev_rank, NoRank, GetP2PProcessGroup(p, prev_rank), None,
                    c.send_metadata, None)
         [] c.op = "send_forward_recv_backward" ->
              Frame(c.object, next_rank, next_rank, GetP2PProcessGroup(p, next_rank),
                    GetP2PProcessGroup(p, next_rank), c.send_metadata, c.metadata_recv)
         [] c.op = "send_backward_recv_forward" ->
              Frame(c.object, prev_rank, prev_rank, GetP2PProcessGroup(p, prev_rank),
                    GetP2PProcessGroup(p, prev_rank), c.send_metadata, c.metadata_recv)
         [] OTHER -> c.args

EndpointFrame(p) ==
    LET c == call[p]
        prev_rank == RankOr(c.rank, GetPrevRank(p))
        next_rank == RankOr(c.rank, GetNextRank(p))
    IN CASE c.op = "recv_forward" ->
              Frame(None, NoRank, prev_rank, None, GetP2PProcessGroup(prev_rank, p),
                    TRUE, c.metadata_recv)
         [] c.op = "recv_backward" ->
              Frame(None, NoRank, next_rank, None, GetP2PProcessGroup(next_rank, p),
                    TRUE, c.metadata_recv)
         [] c.op = "send_forward" ->
              Frame(c.object, next_rank, NoRank, GetP2PProcessGroup(p, next_rank), None,
                    c.send_metadata, None)
         [] c.op = "send_backward" ->
              Frame(c.object, prev_rank, NoRank, GetP2PProcessGroup(p, prev_rank), None,
                    c.send_metadata, None)
         [] c.op = "send_forward_recv_backward" ->
              Frame(c.object, next_rank, next_rank, GetP2PProcessGroup(p, next_rank),
                    GetP2PProcessGroup(p, next_rank), c.send_metadata, c.metadata_recv)
         [] c.op = "send_backward_recv_forward" ->
              Frame(c.object, prev_rank, prev_rank, GetP2PProcessGroup(prev_rank, p),
                    GetP2PProcessGroup(prev_rank, p), c.send_metadata, c.metadata_recv)
         [] OTHER -> c.args

Invoke(p) ==
    /\ pc[p] = "ready"
    /\ call[p].op # "none"
    /\ pc' = [pc EXCEPT ![p] =
                 IF call[p].op = "p2p_communicate" THEN "p2p_comm" ELSE "communicate"]
    /\ frame' = [frame EXCEPT ![p] = EndpointFrame(p)]
    /\ UNCHANGED <<env, device_index, call, part, cont, metadata_recv,
                   send_object_tensor, recv_buffer, result, error, log, chan, posted,
                   received, rw, heap>>

(***************************************************************************)
(* _communicate, lines 360-389: the precondition checks, the split of a    *)
(* combined call that has metadata to send or to receive into a send-only  *)
(* sub-call followed by a receive-only sub-call, and the device check.     *)
(***************************************************************************)
\* line 363 as it would be were the flag left as passed
EffectiveSendMetadataAsPassed(f) == f.send_metadata

\* line 363
EffectiveSendMetadata(f) ==
    f.send_metadata \/ (~IsNone(f.object) /\ ~CheckIfFastSendAvailable(f.object))

\* line 370 as it would be were the absence of a hint left out of the condition
NeedsSplitOnSendMetadataOnly(f, send_metadata) ==
    /\ f.send_dst # NoRank /\ f.recv_src # NoRank
    /\ send_metadata

\* line 370
NeedsSplit(f, send_metadata) ==
    /\ f.send_dst # NoRank /\ f.recv_src # NoRank
    /\ send_metadata \/ IsNone(f.metadata_recv)

\* line 371
SendSubCall(f, send_metadata) ==
    Frame(f.object, f.send_dst, NoRank, f.send_group, None, send_metadata, None)

\* line 372 as it would be were the hint not handed on
RecvSubCallWithoutHint(f) ==
    Frame(None, NoRank, f.recv_src, None, f.recv_group, TRUE, None)

\* line 372
RecvSubCall(f) ==
    Frame(None, NoRank, f.recv_src, None, f.recv_group, TRUE, f.metadata_recv)

\* line 391
NeedsMetadataPhase(f, hint) ==
    \/ f.send_dst # NoRank /\ f.send_metadata
    \/ f.recv_src # NoRank /\ IsNone(hint)

\* the exception lines 360-366 raise, "" when none
PreconditionError(f) ==
    IF f.send_dst = NoRank /\ f.recv_src = NoRank THEN "send_dst and recv_src cannot be both None"
    ELSE IF f.send_dst # NoRank /\ IsNone(f.send_group)
    THEN "send_group must be specified when send_dst is not None"
    ELSE IF f.recv_src # NoRank /\ IsNone(f.recv_group)
    THEN "recv_group must be specified when recv_src is not None"
    ELSE IF ~IsNone(f.metadata_recv) /\ f.metadata_recv.data_type = "Serialization"
    THEN "metadata_recv type must not be Serialization"
    ELSE ""

\* the exception lines 378-388 raise, "" when none
CaseError(p, f, send_metadata) ==
    IF f.send_dst # NoRank /\ send_metadata /\ f.recv_src # NoRank
    THEN "assert line 378"
    ELSE IF f.recv_src # NoRank /\ IsNone(f.metadata_recv) /\ f.send_dst # NoRank
    THEN "assert line 379"
    ELSE IF f.send_dst # NoRank /\ f.recv_src # NoRank
            /\ ~(~send_metadata /\ ~IsNone(f.metadata_recv))
    THEN "assert line 380"
    ELSE IF RankNotInGroup(p, f.send_group) \/ RankNotInGroup(p, f.recv_group)
    THEN "rank not in group"
    ELSE IF CheckDevice(p, f.send_group).current_device
            # CheckDevice(p, f.recv_group).current_device
    THEN "current_send_device == current_recv_device"
    ELSE ""

Communicate(p) ==
    /\ pc[p] = "communicate"
    /\ LET f == frame[p]
           send_metadata == EffectiveSendMetadata(f)
       IN IF PreconditionError(f) # ""
          THEN /\ Raise(p, PreconditionError(f))
               /\ UNCHANGED <<frame, part, cont, metadata_recv>>
          ELSE IF NeedsSplit(f, send_metadata)
          THEN /\ frame' = [frame EXCEPT ![p] = SendSubCall(f, send_metadata)]
               /\ cont' = [cont EXCEPT ![p] = RecvSubCall(f)]
               /\ part' = [part EXCEPT ![p] = "send"]
               /\ UNCHANGED <<pc, error, metadata_recv>>
          ELSE IF CaseError(p, f, send_metadata) # ""
          THEN /\ Raise(p, CaseError(p, f, send_metadata))
               /\ UNCHANGED <<frame, part, cont, metadata_recv>>
          ELSE /\ frame' = [frame EXCEPT ![p].send_metadata = send_metadata]
               /\ metadata_recv' = [metadata_recv EXCEPT ![p] = f.metadata_recv]
               /\ pc' = [pc EXCEPT ![p] =
                            IF NeedsMetadataPhase(frame'[p], f.metadata_recv)
                            THEN "metadata" ELSE "data"]
               /\ UNCHANGED <<part, cont, error>>
    /\ UNCHANGED <<env, device_index, call, send_object_tensor, recv_buffer, result,
                   log, chan, posted, received, rw, heap>>

(***************************************************************************)
(* The metadata phase, lines 391-411, through                              *)
(* _send_recv_serialization_object: the length round, the payload round,   *)
(* and the unpickling of what was received.                                *)
(***************************************************************************)
\* lines 383-386
IsNcclBackend(p, f) ==
    CheckDevice(p, f.send_group).is_nccl_backend
    /\ CheckDevice(p, f.recv_group).is_nccl_backend

\* lines 392-398 as they would be were the backend left out of can_fast_send
MetadataSendWhateverBackend(p, f) ==
    IF f.send_dst # NoRank /\ f.send_metadata
    THEN IF CheckIfFastSendAvailable(f.object)
         THEN CreateFastSendMetadata(f.object)
         ELSE P2PMetadata("Serialization", f.object)
    ELSE None

\* lines 392-398
MetadataSend(p, f) ==
    IF f.send_dst # NoRank /\ f.send_metadata
    THEN IF CheckIfFastSendAvailable(f.object) /\ IsNcclBackend(p, f)
         THEN CreateFastSendMetadata(f.object)
         ELSE P2PMetadata("Serialization", f.object)
    ELSE None

\* lines 403 and 404: the peers handed to _send_recv_serialization_object
ChannelSendDst(f) == IF f.send_metadata THEN f.send_dst ELSE NoRank

ChannelRecvSrc(f, hint) == IF IsNone(hint) THEN f.recv_src ELSE NoRank

\* lines 264-287: serialise, and send and receive the lengths
SerializationLengthRound(p) ==
    /\ pc[p] = "metadata"
    /\ LET f == frame[p]
           object == MetadataSend(p, f)
           send_dst == ChannelSendDst(f)
           recv_src == ChannelRecvSrc(f, metadata_recv[p])
           sending == ~IsNone(object) /\ send_dst # NoRank
           bytes == IF sending /\ Picklable(object) THEN Dumps(object) ELSE <<>>
           sends == IF sending
                    THEN <<Message(f.send_group, "int64", <<Len(bytes)>>, 1)>> ELSE <<>>
           recvs == IF recv_src # NoRank
                    THEN <<Slot(recv_src, f.recv_group, "int64", 1)>> ELSE <<>>
       IN IF sending /\ ~Picklable(object)
          THEN /\ Raise(p, "PicklingError")
               /\ UNCHANGED <<send_object_tensor, log, chan, posted, received>>
          ELSE /\ send_object_tensor' = [send_object_tensor EXCEPT ![p] = bytes]
               /\ IssueBatch(p, send_dst, sends, recvs)
               /\ log' = [log EXCEPT ![p] = @ \o BatchEvents(p, "length", sends, recvs)]
               /\ pc' = [pc EXCEPT ![p] = "length_wait"]
               /\ UNCHANGED error
    /\ UNCHANGED <<env, device_index, call, frame, part, cont, metadata_recv,
                   recv_buffer, result, rw, heap>>

\* line 300 as it would be were the buffer sized by the object of the stage itself
RecvObjectSizeOfOwnObject(p) == Len(send_object_tensor[p])

\* line 300: recv_object_size_tensor.item(), the length received
RecvObjectSize(p) == received[p][1][1]

\* lines 286-309: wait for the lengths, synchronise, send and receive the bytes
SerializationPayloadRound(p) ==
    /\ pc[p] = "length_wait"
    /\ BatchComplete(p)
    /\ LET f == frame[p]
           send_dst == ChannelSendDst(f)
           recv_src == ChannelRecvSrc(f, metadata_recv[p])
           sending == send_dst # NoRank /\ send_object_tensor[p] # <<>>
           size == IF recv_src # NoRank THEN RecvObjectSize(p) ELSE 0
           sends == IF sending
                    THEN <<Message(f.send_group, "uint8", send_object_tensor[p],
                                   Len(send_object_tensor[p]))>>
                    ELSE <<>>
           recvs == IF recv_src # NoRank
                    THEN <<Slot(recv_src, f.recv_group, "uint8", size)>> ELSE <<>>
       IN /\ IssueBatch(p, send_dst, sends, recvs)
          /\ log' = [log EXCEPT ![p] =
                        @ \o WaitEvents(p, "length",
                                        recv_src # NoRank
                                        \/ (send_dst # NoRank /\ send_object_tensor[p] # <<>>))
                          \o (IF recv_src # NoRank
                              THEN <<Event(p, "empty", "payload", size)>> ELSE <<>>)
                          \o BatchEvents(p, "payload", sends, recvs)]
          /\ pc' = [pc EXCEPT ![p] = "payload_wait"]
    /\ UNCHANGED <<env, device_index, call, frame, part, cont, metadata_recv,
                   send_object_tensor, recv_buffer, result, error, rw, heap>>

\* lines 306-324 and 410-411: wait for the bytes, synchronise, unpickle
SerializationReturn(p) ==
    /\ pc[p] = "payload_wait"
    /\ BatchComplete(p)
    /\ LET f == frame[p]
           recv_src == ChannelRecvSrc(f, metadata_recv[p])
           unpickle == IF recv_src # NoRank
                       THEN CudaSafeTensorToObject(received[p][1], Len(received[p][1]),
                                                   device_index[p])
                       ELSE [ok |-> TRUE, val |-> None]
       IN /\ log' = [log EXCEPT ![p] =
                        @ \o WaitEvents(p, "payload",
                                        recv_src # NoRank
                                        \/ (ChannelSendDst(f) # NoRank
                                            /\ send_object_tensor[p] # <<>>))]
          /\ IF ~unpickle.ok
             THEN /\ Raise(p, "UnpicklingError")
                  /\ UNCHANGED metadata_recv
             ELSE IF ~IsNone(metadata_recv[p]) /\ ~IsNone(unpickle.val)
             THEN /\ Raise(p, "assert line 410")
                  /\ UNCHANGED metadata_recv
             ELSE /\ metadata_recv' = [metadata_recv EXCEPT ![p] =
                                          IF IsNone(@) THEN unpickle.val ELSE @]
                  /\ pc' = [pc EXCEPT ![p] = "data"]
                  /\ UNCHANGED error
    /\ received' = [received EXCEPT ![p] = <<>>]
    /\ UNCHANGED <<env, device_index, call, frame, part, cont, send_object_tensor,
                   recv_buffer, result, chan, posted, rw, heap>>

(***************************************************************************)
(* The data phase, lines 413-424, through _batch_send_recv_tensor, and the *)
(* reconstruction of the received value, lines 426-437.                    *)
(***************************************************************************)
\* lines 413-419
SendTensorList(object) ==
    IF object.type = "Tensor" THEN object
    ELSE IF object.type = "list" THEN object
    ELSE IF object.type = "dict"
    THEN PyList([i \in 1..Len(object.items) |-> object.items[i].value])
    ELSE None

\* lines 229-231
BufferRecv(recv_tensor_metadata, current_device) ==
    IF ~IsNone(recv_tensor_metadata) /\ recv_tensor_metadata.data_type # "Serialization"
    THEN CreateRecvBuffer(recv_tensor_metadata, current_device)
    ELSE None

\* filling_ops_queue as it would be were only the first tensor of a list queued
FillingOpsQueueFirstOnly(obj) ==
    IF obj.type = "Tensor" THEN [ok |-> TRUE, tensors |-> <<obj>>]
    ELSE [ok |-> \A i \in 1..Len(obj.items) : IsTensor(obj.items[i]),
          tensors |-> IF obj.items = <<>> THEN <<>> ELSE <<obj.items[1]>>]

\* filling_ops_queue: the tensors it makes operations for, in order; ok is FALSE
\* when the assertion of line 181 fails
FillingOpsQueue(obj) ==
    IF obj.type = "Tensor" THEN [ok |-> TRUE, tensors |-> <<obj>>]
    ELSE [ok |-> \A i \in 1..Len(obj.items) : IsTensor(obj.items[i]),
          tensors |-> obj.items]

\* torch.empty as it would be were the buffers of a call kept for the calls after it
NewTensorsOfCache(created, n) == [i \in 1..n |-> i]

\* torch.empty called n times by a stage that has created so many tensors: the
\* identities of the new tensors
NewTensors(created, n) == [i \in 1..n |-> created + i]

\* the tensors of the payload a caller passes, which the caller has created
PayloadTensors(object) ==
    LET send_tensor_list == SendTensorList(object) IN
    IF IsNone(send_tensor_list) THEN <<>>
    ELSE IF send_tensor_list.type = "Tensor" THEN <<send_tensor_list>>
    ELSE send_tensor_list.items

\* lines 426-437 on identities: the tensors of the value returned, tensors being
\* the identities of the buffers
ReturnedTensors(hint, tensors) ==
    IF IsNone(hint) THEN <<>>
    ELSE IF hint.data_type = "Serialization" THEN <<>>
    ELSE IF hint.data_type \in {"Tensor", "List"} THEN tensors
    ELSE LET pairs == DictOfZip([i \in 1..Len(hint.content.items) |->
                                    hint.content.items[i].key], tensors, <<>>).items
         IN [i \in 1..Len(pairs) |-> pairs[i].value]

\* the heap of a stage once n buffers have been allocated
Allocate(stage_heap, n) ==
    [stage_heap EXCEPT !.created = @ + n, !.buffers = NewTensors(stage_heap.created, n)]

\* the heap of a stage once a call has returned the given tensors
Return(stage_heap, tensors) ==
    [stage_heap EXCEPT !.buffers = <<>>,
                       !.returned = Append(@, [base |-> stage_heap.base,
                                               top |-> stage_heap.created,
                                               tensors |-> tensors])]

\* lines 220-242: allocate, queue the sends then the receives, issue the batch
BatchSendRecvTensor(p) ==
    /\ pc[p] = "data"
    /\ LET f == frame[p]
           send_tensor_list == SendTensorList(f.object)
           current_device == CheckDevice(p, f.send_group).current_device
           buffer_recv == BufferRecv(metadata_recv[p], current_device)
           sending == f.send_dst # NoRank /\ ~IsNone(send_tensor_list)
           receiving == f.recv_src # NoRank /\ ~IsNone(buffer_recv)
           outbound == IF sending THEN FillingOpsQueue(send_tensor_list)
                       ELSE [ok |-> TRUE, tensors |-> <<>>]
           inbound == IF receiving THEN FillingOpsQueue(buffer_recv).tensors ELSE <<>>
           sends == [i \in 1..Len(outbound.tensors) |->
                        TensorMessage(f.send_group, outbound.tensors[i])]
           recvs == [i \in 1..Len(inbound) |->
                        TensorSlot(f.recv_src, f.recv_group, inbound[i])]
           allocated == IF IsNone(buffer_recv) THEN <<>>
                        ELSE FillingOpsQueue(buffer_recv).tensors
       IN /\ recv_buffer' = [recv_buffer EXCEPT ![p] = buffer_recv]
          /\ heap' = [heap EXCEPT ![p] = Allocate(@, Len(allocated))]
          /\ IF ~outbound.ok
             THEN /\ Raise(p, "assert line 181")
                  /\ log' = [log EXCEPT ![p] =
                                @ \o [i \in 1..Len(allocated) |->
                                         Event(p, "empty", "data", Numel(allocated[i]))]]
                  /\ UNCHANGED <<chan, posted, received>>
             ELSE /\ IssueBatch(p, f.send_dst, sends, recvs)
                  /\ log' = [log EXCEPT ![p] =
                                @ \o [i \in 1..Len(allocated) |->
                                         Event(p, "empty", "data", Numel(allocated[i]))]
                                  \o BatchEvents(p, "data", sends, recvs)]
                  /\ pc' = [pc EXCEPT ![p] = "data_wait"]
                  /\ UNCHANGED error
    /\ UNCHANGED <<env, device_index, call, frame, part, cont, metadata_recv,
                   send_object_tensor, result, rw>>

\* the buffers once the receives into them have completed
Filled(buffer_recv, values) ==
    IF buffer_recv.type = "Tensor"
    THEN IF values = <<>> THEN buffer_recv ELSE [buffer_recv EXCEPT !.data = values[1][1]]
    ELSE PyList([i \in 1..Len(buffer_recv.items) |->
                   IF i <= Len(values)
                   THEN [buffer_recv.items[i] EXCEPT !.data = values[i][1]]
                   ELSE buffer_recv.items[i]])

\* lines 426-437 as they would be were Dict metadata handled like List metadata
ReconstructAsList(hint, buffer) ==
    IF IsNone(hint) THEN None
    ELSE IF hint.data_type = "Serialization" THEN hint.content
    ELSE buffer

\* lines 426-437
Reconstruct(hint, buffer) ==
    IF IsNone(hint) THEN None
    ELSE IF hint.data_type = "Serialization" THEN hint.content
    ELSE IF hint.data_type \in {"Tensor", "List"} THEN buffer
    ELSE DictOfZip([i \in 1..Len(hint.content.items) |-> hint.content.items[i].key],
                   buffer.items, <<>>)

\* lines 241-252 and 426-437: wait, synchronise, rebuild the value and return;
\* the send sub-call of a split call returns into the receive sub-call
CommunicateReturn(p) ==
    /\ pc[p] = "data_wait"
    /\ BatchComplete(p)
    /\ LET f == frame[p]
           buffer == IF IsNone(recv_buffer[p]) THEN None
                     ELSE Filled(recv_buffer[p], received[p])
           had_ops == (f.send_dst # NoRank /\ ~IsNone(SendTensorList(f.object))
                          /\ FillingOpsQueue(SendTensorList(f.object)).tensors # <<>>)
                      \/ (f.recv_src # NoRank /\ ~IsNone(recv_buffer[p])
                          /\ FillingOpsQueue(recv_buffer[p]).tensors # <<>>)
       IN /\ log' = [log EXCEPT ![p] = @ \o WaitEvents(p, "data", had_ops)]
          /\ IF part[p] = "send"
             THEN /\ frame' = [frame EXCEPT ![p] = cont[p]]
                  /\ part' = [part EXCEPT ![p] = "recv"]
                  /\ pc' = [pc EXCEPT ![p] = "communicate"]
                  /\ heap' = [heap EXCEPT ![p].buffers = <<>>]
                  /\ UNCHANGED result
             ELSE /\ result' = [result EXCEPT ![p] = Reconstruct(metadata_recv[p], buffer)]
                  /\ heap' = [heap EXCEPT ![p] =
                                  Return(@, ReturnedTensors(metadata_recv[p], @.buffers))]
                  /\ pc' = [pc EXCEPT ![p] = "done"]
                  /\ UNCHANGED <<frame, part>>
    /\ received' = [received EXCEPT ![p] = <<>>]
    /\ recv_buffer' = [recv_buffer EXCEPT ![p] = None]
    /\ UNCHANGED <<env, device_index, call, cont, metadata_recv, send_object_tensor,
                   error, chan, posted, rw>>

(***************************************************************************)
(* p2p_communicate and _p2p_comm: the shapes, as vectors of three          *)
(* elements, in one batch, then the tensors in a second batch.             *)
(***************************************************************************)
\* torch.empty((3), ...): the length of the shape vector received
ShapeVectorLength == 3

P2PPeer(p) == RankOr(call[p].rank, GetNextRank(p))

P2PGroup(p) == GetP2PProcessGroup(p, P2PPeer(p))

\* lines 515-517 as they would be were the buffer always of the default dtype
TensorRecvPrevOfDefaultDtype(p) ==
    IF call[p].recv_pre
    THEN TorchEmpty(received[p][1], FALSE, Cuda(device_index[p]), "float16")
    ELSE None

\* lines 515-517: the buffer of the shape received, of dtype comm_dtype
TensorRecvPrev(p) ==
    IF call[p].recv_pre
    THEN TorchEmpty(received[p][1], FALSE, Cuda(device_index[p]), call[p].comm_dtype)
    ELSE None

\* lines 485-507: the shapes, queued and issued in one batch
P2PShapeRound(p) ==
    /\ pc[p] = "p2p_comm"
    /\ LET c == call[p]
           sends == IF ~IsNone(c.object)
                    THEN <<Message(P2PGroup(p), "int64", c.object.shape,
                                   Len(c.object.shape))>>
                    ELSE <<>>
           recvs == IF c.recv_pre
                    THEN <<Slot(P2PPeer(p), P2PGroup(p), "int64", ShapeVectorLength)>>
                    ELSE <<>>
       IN /\ IssueBatch(p, P2PPeer(p), sends, recvs)
          /\ log' = [log EXCEPT ![p] =
                        @ \o (IF c.recv_pre
                              THEN <<Event(p, "empty", "shape", ShapeVectorLength)>>
                              ELSE <<>>)
                          \o BatchEvents(p, "shape", sends, recvs)]
          /\ pc' = [pc EXCEPT ![p] = "p2p_shape_wait"]
    /\ UNCHANGED <<env, device_index, call, frame, part, cont, metadata_recv,
                   send_object_tensor, recv_buffer, result, error, rw, heap>>

\* lines 508-537: wait for the shapes, allocate, issue the tensors in one batch
P2PDataRound(p) ==
    /\ pc[p] = "p2p_shape_wait"
    /\ BatchComplete(p)
    /\ LET c == call[p]
           tensor_recv_prev == TensorRecvPrev(p)
           sends == IF ~IsNone(c.object)
                    THEN <<TensorMessage(P2PGroup(p), c.object)>> ELSE <<>>
           recvs == IF c.recv_pre
                    THEN <<TensorSlot(P2PPeer(p), P2PGroup(p), tensor_recv_prev)>>
                    ELSE <<>>
       IN /\ IssueBatch(p, P2PPeer(p), sends, recvs)
          /\ recv_buffer' = [recv_buffer EXCEPT ![p] = tensor_recv_prev]
          /\ heap' = [heap EXCEPT ![p] = Allocate(@, IF c.recv_pre THEN 1 ELSE 0)]
          /\ log' = [log EXCEPT ![p] =
                        @ \o (IF ~IsNone(c.object) \/ c.recv_pre
                              THEN <<Event(p, "wait", "shape", 0)>> ELSE <<>>)
                          \o (IF c.recv_pre
                              THEN <<Event(p, "empty", "data", Numel(tensor_recv_prev))>>
                              ELSE <<>>)
                          \o BatchEvents(p, "data", sends, recvs)]
          /\ pc' = [pc EXCEPT ![p] = "p2p_data_wait"]
    /\ UNCHANGED <<env, device_index, call, frame, part, cont, metadata_recv,
                   send_object_tensor, result, error, rw>>

\* lines 538-540: wait for the tensors, return the buffer
P2PReturn(p) ==
    /\ pc[p] = "p2p_data_wait"
    /\ BatchComplete(p)
    /\ result' = [result EXCEPT ![p] =
                     IF IsNone(recv_buffer[p]) THEN None
                     ELSE Filled(recv_buffer[p], received[p])]
    /\ log' = [log EXCEPT ![p] =
                  @ \o (IF ~IsNone(call[p].object) \/ call[p].recv_pre
                        THEN <<Event(p, "wait", "data", 0)>> ELSE <<>>)]
    /\ heap' = [heap EXCEPT ![p] = Return(@, @.buffers)]
    /\ pc' = [pc EXCEPT ![p] = "done"]
    /\ received' = [received EXCEPT ![p] = <<>>]
    /\ recv_buffer' = [recv_buffer EXCEPT ![p] = None]
    /\ UNCHANGED <<env, device_index, call, frame, part, cont, metadata_recv,
                   send_object_tensor, error, chan, posted, rw>>

(***************************************************************************)
(* The calls the two stages make.                                          *)
(***************************************************************************)
Stage0Device == Cuda(0)

\* rank0 sends forward, rank1 receives forward
OneWayForward(d) ==
    UNION {{ [rank0 |-> Call("send_forward", object, NoRank, send_metadata, None),
              rank1 |-> Call("recv_forward", None, NoRank, TRUE, hint)]
             : send_metadata \in BOOLEAN, hint \in Hints(object) }
           : object \in Payloads(Stage0Device)}

\* rank1 sends backward, rank0 receives backward
OneWayBackward(d) ==
    UNION {{ [rank0 |-> Call("recv_backward", None, NoRank, TRUE, hint),
              rank1 |-> Call("send_backward", object, NoRank, send_metadata, None)]
             : send_metadata \in BOOLEAN, hint \in Hints(object) }
           : object \in BackwardPayloads(Cuda(d))}

\* rank0 sends forward and receives backward, rank1 sends backward and receives forward
Exchange(d) ==
    UNION {{ [rank0 |-> Call("send_forward_recv_backward", forward, NoRank, sm0, hint0),
              rank1 |-> Call("send_backward_recv_forward", backward, NoRank, sm1, hint1)]
             : sm0 \in BOOLEAN, sm1 \in BOOLEAN,
               hint0 \in Hints(backward), hint1 \in Hints(forward) }
           : forward \in ForwardPayloads(Stage0Device),
             backward \in BackwardPayloads(Cuda(d))}

\* a group of rank0 and rank1 of the given backend
GroupOf(nccl) ==
    [type |-> "ProcessGroup", ranks |-> Ranks, pair |-> <<"rank0", "rank1">>,
     nccl |-> nccl]

\* direct calls of _communicate by rank0, among them the calls its assertions reject
RawFrames ==
    { Frame(TensorA(Stage0Device), NoRank, NoRank, None, None, TRUE, None),
      Frame(TensorA(Stage0Device), "rank1", NoRank, None, None, TRUE, None),
      Frame(None, NoRank, "rank1", None, None, TRUE, None),
      Frame(None, NoRank, "rank1", None, GroupOf(TRUE), TRUE,
            P2PMetadata("Serialization", PyInt(7))) }
    \cup { Frame(TensorA(Stage0Device), "rank1", "rank1", GroupOf(TRUE), GroupOf(nccl),
                 send_metadata, hint)
           : nccl \in BOOLEAN, send_metadata \in BOOLEAN,
             hint \in {None, CreateFastSendMetadata(TensorB(Stage0Device))} }

Direct(d) ==
    { [rank0 |-> RawCall(args), rank1 |-> Call("recv_forward", None, NoRank, TRUE, None)]
      : args \in RawFrames }

NoRewrite ==
    [pieces |-> <<>>, buf |-> <<>>, device_index |-> 0, out |-> <<>>, ok |-> TRUE,
     done |-> FALSE]

InitStages ==
    /\ pc = [p \in Ranks |-> "ready"]
    /\ frame = [p \in Ranks |-> NoFrame]
    /\ part = [p \in Ranks |-> "whole"]
    /\ cont = [p \in Ranks |-> NoFrame]
    /\ metadata_recv = [p \in Ranks |-> None]
    /\ send_object_tensor = [p \in Ranks |-> <<>>]
    /\ recv_buffer = [p \in Ranks |-> None]
    /\ result = [p \in Ranks |-> None]
    /\ error = [p \in Ranks |-> ""]
    /\ log = [p \in Ranks |-> <<>>]
    /\ chan = [link \in Ranks \X Ranks |-> <<>>]
    /\ posted = [p \in Ranks |-> <<>>]
    /\ received = [p \in Ranks |-> <<>>]
    /\ heap = [p \in Ranks |->
                  LET n == Len(PayloadTensors(call[p].object)) IN
                  [created |-> n, payload |-> [i \in 1..n |-> i], buffers |-> <<>>,
                   base |-> n, returned |-> <<>>]]

Init ==
    /\ env \in [rendezvous : BOOLEAN, p2p_nccl : BOOLEAN, default_nccl : BOOLEAN]
    /\ \E d \in 0..MaxDeviceIndex :
          /\ device_index = [p \in Ranks |-> IF p = "rank0" THEN 0 ELSE d]
          /\ call \in OneWayForward(d) \cup OneWayBackward(d) \cup Exchange(d)
                      \cup Direct(d)
    /\ InitStages
    /\ rw = NoRewrite

Next ==
    \E p \in Ranks :
        \/ Invoke(p)
        \/ Communicate(p)
        \/ SerializationLengthRound(p)
        \/ SerializationPayloadRound(p)
        \/ SerializationReturn(p)
        \/ BatchSendRecvTensor(p)
        \/ CommunicateReturn(p)
        \/ Deliver(p)
        \/ TransportFault(p)

Spec == Init /\ [][Next]_vars

(***************************************************************************)
(* The two-stage fast path on its own: both stages call p2p_communicate.   *)
(* The transport delivers a message a posted receive fits, and each stage  *)
(* takes its next step when it can (weak fairness of the steps).           *)
(***************************************************************************)
\* a tensor of another rank than three
TensorC(device) == Tensor(<<2, 2>>, "float16", FALSE, device, 3)

P2PCalls(device) ==
    { P2PCall(object, recv_pre, comm_dtype)
      : object \in {TensorA(device), TensorB(device), TensorC(device), None},
        recv_pre \in BOOLEAN, comm_dtype \in {"float16", "float32"} }

InitP2P ==
    /\ env \in [rendezvous : BOOLEAN, p2p_nccl : {TRUE}, default_nccl : {TRUE}]
    /\ \E d \in 0..MaxDeviceIndex :
          /\ device_index = [p \in Ranks |-> IF p = "rank0" THEN 0 ELSE d]
          /\ call \in [rank0 : P2PCalls(Stage0Device), rank1 : P2PCalls(Cuda(d))]
    /\ InitStages
    /\ rw = NoRewrite

NextP2P ==
    \E p \in Ranks :
        \/ Invoke(p)
        \/ P2PShapeRound(p)
        \/ P2PDataRound(p)
        \/ P2PReturn(p)
        \/ Deliver(p)
        \/ TransportFault(p)

SpecP2P ==
    /\ InitP2P
    /\ [][NextP2P]_vars
    /\ \A p \in Ranks :
          /\ WF_vars(Invoke(p))
          /\ WF_vars(P2PShapeRound(p))
          /\ WF_vars(P2PDataRound(p))
          /\ WF_vars(P2PReturn(p))
          /\ WF_vars(Deliver(p))

(***************************************************************************)
(* All the operations of PipelineP2PCommunication together: the two stages *)
(* make a pair of calls of the operations built on _communicate, or both   *)
(* call p2p_communicate.                                                   *)
(***************************************************************************)
InitEndpoint == Init \/ InitP2P

NextEndpoint ==
    \E p \in Ranks :
        \/ Invoke(p)
        \/ Communicate(p)
        \/ SerializationLengthRound(p)
        \/ SerializationPayloadRound(p)
        \/ SerializationReturn(p)
        \/ BatchSendRecvTensor(p)
        \/ CommunicateReturn(p)
        \/ P2PShapeRound(p)
        \/ P2PDataRound(p)
        \/ P2PReturn(p)
        \/ Deliver(p)
        \/ TransportFault(p)

SpecEndpoint == InitEndpoint /\ [][NextEndpoint]_vars

(***************************************************************************)
(* Calls made one after the other: a stage whose call has returned makes   *)
(* the same call again, with the same payload and the same hint.  What a   *)
(* call keeps is in local variables, which the next call starts afresh.    *)
(***************************************************************************)
NextCall(p) ==
    /\ pc[p] = "done"
    /\ Len(heap[p].returned) < MaxCalls
    /\ pc' = [pc EXCEPT ![p] = "ready"]
    /\ frame' = [frame EXCEPT ![p] = NoFrame]
    /\ part' = [part EXCEPT ![p] = "whole"]
    /\ cont' = [cont EXCEPT ![p] = NoFrame]
    /\ metadata_recv' = [metadata_recv EXCEPT ![p] = None]
    /\ send_object_tensor' = [send_object_tensor EXCEPT ![p] = <<>>]
    /\ recv_buffer' = [recv_buffer EXCEPT ![p] = None]
    /\ result' = [result EXCEPT ![p] = None]
    /\ log' = [log EXCEPT ![p] = <<>>]
    /\ heap' = [heap EXCEPT ![p].base = heap[p].created]
    /\ UNCHANGED <<env, device_index, call, error, chan, posted, received, rw>>

InitFresh ==
    /\ env = [rendezvous |-> FALSE, p2p_nccl |-> TRUE, default_nccl |-> TRUE]
    /\ \E d \in 0..MaxDeviceIndex :
          /\ device_index = [p \in Ranks |-> IF p = "rank0" THEN 0 ELSE d]
          /\ call \in OneWayForward(d) \cup Exchange(d)
    /\ InitStages
    /\ rw = NoRewrite

NextFresh ==
    \/ Next
    \/ \E p \in Ranks : NextCall(p)

SpecFresh == InitFresh /\ [][NextFresh]_vars

(***************************************************************************)
(* The rewriting of _cuda_safe_tensor_to_object on its own: a received     *)
(* byte stream made of device references "cuda:<index>", of the bare token *)
(* "cuda" and of other bytes, rewritten under a local device index.        *)
(***************************************************************************)
\* a byte that is no part of a token
OtherByte == <<120>>

Pieces ==
    { LocationTag(Cuda(0)), LocationTag(Cuda(12)), CudaToken, OtherByte }

RECURSIVE Concat(_)
Concat(pieces) ==
    IF pieces = <<>> THEN <<>> ELSE Head(pieces) \o Concat(Tail(pieces))

PieceSeqs == UNION {[1..n -> Pieces] : n \in 0..MaxPieces}

InitRewrite ==
    /\ env = [rendezvous |-> FALSE, p2p_nccl |-> TRUE, default_nccl |-> TRUE]
    /\ device_index = [p \in Ranks |-> 0]
    /\ call = [p \in Ranks |-> NoCall]
    /\ InitStages
    /\ \E pieces \in PieceSeqs, d \in 0..MaxRewriteIndex :
          rw = [pieces |-> pieces, buf |-> Concat(pieces), device_index |-> d,
                out |-> <<>>, ok |-> TRUE, done |-> FALSE]

\* lines 34-42 applied to the stream
Rewrite ==
    /\ ~rw.done
    /\ LET rewritten == CudaSafeBytes(rw.buf, Len(rw.buf), rw.device_index) IN
       rw' = [rw EXCEPT !.out = rewritten.buf, !.ok = rewritten.ok, !.done = TRUE]
    /\ UNCHANGED <<env, device_index, call, pc, frame, part, cont, metadata_recv,
                   send_object_tensor, recv_buffer, result, error, log, chan, posted,
                   received, heap>>

SpecRewrite == InitRewrite /\ [][Rewrite]_vars

(***************************************************************************)
(* The properties.  They are stated on the calls the stages make (call),   *)
(* on what the calls return (result, error) and on the transport           *)
(* operations they issue (log).                                            *)
(***************************************************************************)
\* a tensor, a list of tensors or a str-keyed dict of tensors
FastPathPayload(P) ==
    \/ P.type = "Tensor"
    \/ P.type = "list" /\ \A i \in 1..Len(P.items) : P.items[i].type = "Tensor"
    \/ P.type = "dict" /\ \A i \in 1..Len(P.items) :
                             /\ P.items[i].key.type = "str"
                             /\ P.items[i].value.type = "Tensor"

\* the tensors of a tensor, a list or a dict, in order
TensorsOf(P) ==
    IF P.type = "Tensor" THEN <<P>>
    ELSE IF P.type = "list" THEN P.items
    ELSE IF P.type = "dict" THEN [i \in 1..Len(P.items) |-> P.items[i].value]
    ELSE <<>>

\* a value with the device of its tensors left out of account
RECURSIVE Undeviced(_)
Undeviced(V) ==
    IF V.type = "Tensor" THEN [V EXCEPT !.device = Cpu]
    ELSE IF V.type \in {"list", "tuple"}
    THEN [V EXCEPT !.items = [i \in 1..Len(V.items) |-> Undeviced(V.items[i])]]
    ELSE IF V.type = "dict"
    THEN [V EXCEPT !.items = [i \in 1..Len(V.items) |->
                                 Item(V.items[i].key, Undeviced(V.items[i].value))]]
    ELSE V

SameShapeAndDType(t, u) ==
    /\ t.type = "Tensor" /\ u.type = "Tensor"
    /\ t.shape = u.shape
    /\ t.dtype = u.dtype

\* R has the container kind of P, as many tensors, each of the shape and dtype of
\* the tensor of P at its position, and, for a dict, the keys of P in their order
SameStructure(P, R) ==
    IF P.type = "Tensor" THEN SameShapeAndDType(P, R)
    ELSE /\ R.type = P.type
         /\ Len(R.items) = Len(P.items)
         /\ \A i \in 1..Len(P.items) :
               IF P.type = "dict"
               THEN /\ R.items[i].key = P.items[i].key
                    /\ SameShapeAndDType(P.items[i].value, R.items[i].value)
               ELSE SameShapeAndDType(P.items[i], R.items[i])

\* rank0 calls send_forward, rank1 calls recv_forward
SendsForward ==
    /\ call["rank0"].op = "send_forward"
    /\ call["rank1"].op = "recv_forward"

\* both groups of a send-only or receive-only call are of one backend
OneBackend == env.p2p_nccl = env.default_nccl

\* C1: a tensor, list of tensors or str-keyed dict of tensors sent by send_forward
\* with metadata and received by recv_forward without a hint comes back as a value
\* of the same container kind, with as many tensors, each of the shape and dtype of
\* the one sent at its position, and for a dict with the same keys in the same order.
C1_FastPathRoundTrip ==
    ( /\ SendsForward
      /\ env.p2p_nccl /\ env.default_nccl
      /\ call["rank0"].send_metadata
      /\ IsNone(call["rank1"].metadata_recv)
      /\ FastPathPayload(call["rank0"].object)
      /\ pc["rank1"] = "done" )
    => SameStructure(call["rank0"].object, result["rank1"])

\* a picklable value that is no tensor, list of tensors or str-keyed dict of tensors
OpaquePayload(V) == ~IsNone(V) /\ Picklable(V) /\ ~FastPathPayload(V)

\* C2: a picklable value that is not fast-path-classifiable, sent by send_forward
\* and received by recv_forward without a hint: the sender does not raise and sends
\* nothing outside the length and payload rounds, and the value the receiver
\* returns equals the value sent.
C2_OpaqueRoundTrip ==
    ( /\ SendsForward
      /\ OneBackend
      /\ IsNone(call["rank1"].metadata_recv)
      /\ OpaquePayload(call["rank0"].object) )
    => /\ pc["rank0"] # "raised"
       /\ \A i \in 1..Len(log["rank0"]) :
             log["rank0"][i].event = "isend" => log["rank0"][i].round \in {"length", "payload"}
       /\ pc["rank1"] = "done"
             => Undeviced(result["rank1"]) = Undeviced(call["rank0"].object)

\* C3: a str-keyed dict of tensors sent forward is received as a dict whose keys are
\* the sender's keys in the sender's order, the i-th key bound to the tensor that
\* holds the data of the sender's i-th value.
C3_KeyOrderAndAssociation ==
    ( /\ SendsForward
      /\ call["rank0"].object.type = "dict"
      /\ FastPathPayload(call["rank0"].object)
      /\ OneBackend /\ env.p2p_nccl
      /\ pc["rank1"] = "done" )
    => LET P == call["rank0"].object
           R == result["rank1"]
       IN /\ R.type = "dict"
          /\ Len(R.items) = Len(P.items)
          /\ \A i \in 1..Len(P.items) :
                /\ R.items[i].key = P.items[i].key
                /\ R.items[i].value.data = P.items[i].value.data

\* the stages call the combined operations against each other
Exchanges ==
    /\ call["rank0"].op = "send_forward_recv_backward"
    /\ call["rank1"].op = "send_backward_recv_forward"

Waiting(p) ==
    pc[p] \in {"length_wait", "payload_wait", "data_wait", "p2p_shape_wait", "p2p_data_wait"}

\* the oldest receive p has posted has a message of its group to look at
HasMessage(p) ==
    /\ posted[p] # <<>>
    /\ chan[<<Head(posted[p]).src, p>>] # <<>>
    /\ Head(chan[<<Head(posted[p]).src, p>>]).group = Head(posted[p]).group

\* p waits for a batch that is not complete, and no message is there for it
Blocked(p) == Waiting(p) /\ ~BatchComplete(p) /\ ~HasMessage(p)

\* the send_metadata _communicate works with: forced for a payload that is not
\* fast-path-classifiable
SendsMetadata(p) == call[p].send_metadata \/ ~FastPathPayload(call[p].object)

\* each stage holds a hint exactly when the other sends no metadata
FlagsAgree ==
    /\ SendsMetadata("rank0") <=> IsNone(call["rank1"].metadata_recv)
    /\ SendsMetadata("rank1") <=> IsNone(call["rank0"].metadata_recv)

\* C4: in an exchange by the combined operations (over NCCL groups, the flags of
\* the two sides agreeing), whatever the send_metadata flags and the hints, the two
\* stages are never both blocked on transport operations the other does not match.
C4_NoMutualBlock ==
    (Exchanges /\ env.p2p_nccl /\ FlagsAgree)
    => ~(Blocked("rank0") /\ Blocked("rank1"))

\* both stages call p2p_communicate with a tensor of three dimensions to send and
\* recv_pre true
BothCallP2P ==
    \A p \in Ranks :
        /\ call[p].op = "p2p_communicate"
        /\ call[p].object.type = "Tensor"
        /\ Len(call[p].object.shape) = 3
        /\ call[p].recv_pre

\* the other stage of the pair
Peer(p) == IF p = "rank0" THEN "rank1" ELSE "rank0"

\* both calls have returned, each a tensor of the shape of the tensor the other
\* stage sent, holding its data
BothReturned ==
    \A p \in Ranks :
        /\ pc[p] = "done"
        /\ result[p].type = "Tensor"
        /\ result[p].shape = call[Peer(p)].object.shape
        /\ result[p].data = call[Peer(p)].object.data

CommDTypesFit ==
    \A p \in Ranks : call[p].comm_dtype = call[Peer(p)].object.dtype

TransportOps == {"isend", "irecv", "batch_isend_irecv"}

\* the aborts of _communicate on its arguments: no peer, a peer without its group,
\* a Serialization hint, a payload of an unsupported type, devices that differ
PreconditionAborts ==
    { "send_dst and recv_src cannot be both None",
      "send_group must be specified when send_dst is not None",
      "recv_group must be specified when recv_src is not None",
      "metadata_recv type must not be Serialization",
      "PicklingError",
      "assert line 181",
      "current_send_device == current_recv_device" }

\* C6: a call of _communicate (a sub-call of a split call counted by itself) that
\* aborts on its arguments has issued no transport operation before the abort.
C6_NoPartialTransmission ==
    \A p \in Ranks :
        (pc[p] = "raised" /\ error[p] \in PreconditionAborts)
        => \A i \in 1..Len(log[p]) :
              log[p][i].part = part[p] => log[p][i].event \notin TransportOps

\* rank1 calls send_backward, rank0 calls recv_backward
SendsBackward ==
    /\ call["rank0"].op = "recv_backward"
    /\ call["rank1"].op = "send_backward"

\* the leg from sender to its peer needs no metadata negotiation
NoNegotiation(sender) ==
    /\ ~call[sender].send_metadata
    /\ FastPathPayload(call[sender].object)
    /\ ~IsNone(call[Peer(sender)].metadata_recv)

\* current_device of a call over the p2p group
DeviceOf(p) == IF env.p2p_nccl THEN Cuda(device_index[p]) ELSE Cpu

\* the tensor a descriptor and the data of the tensor sent make
Landed(descriptor, sent, device) ==
    Tensor(descriptor.shape, descriptor.dtype, descriptor.requires_grad, device, sent.data)

\* what a receive-only call with the hint returns when X is sent to it by a
\* send-only call without metadata
SeparateResult(hint, X, device) ==
    LET sent == TensorsOf(X) IN
    IF hint.data_type = "Tensor" THEN Landed(hint.content, sent[1], device)
    ELSE IF hint.data_type = "List"
    THEN PyList([i \in 1..Len(hint.content.items) |->
                    Landed(hint.content.items[i], sent[i], device)])
    ELSE PyDict([i \in 1..Len(hint.content.items) |->
                    Item(hint.content.items[i].key,
                         Landed(hint.content.items[i], sent[i], device))])

ReturnsSeparateResult(p) ==
    pc[p] = "done"
    => result[p] = SeparateResult(call[p].metadata_recv, call[Peer(p)].object, DeviceOf(p))

\* C7: when no leg needs metadata negotiation (send_metadata false, a
\* fast-path payload, a hint supplied), the combined calls return on each stage
\* the value the separate send-only call without metadata and receive-only call
\* with the same hint return.
C7_CombinedCallEquivalence ==
    /\ (Exchanges /\ NoNegotiation("rank0") /\ NoNegotiation("rank1"))
       => ReturnsSeparateResult("rank0") /\ ReturnsSeparateResult("rank1")
    /\ (SendsForward /\ NoNegotiation("rank0")) => ReturnsSeparateResult("rank1")
    /\ (SendsBackward /\ NoNegotiation("rank1")) => ReturnsSeparateResult("rank0")

\* both stages have returned from combined calls without negotiation, rank1 with
\* a dict
C7_Witness ==
    /\ Exchanges /\ NoNegotiation("rank0") /\ NoNegotiation("rank1")
    /\ pc["rank0"] = "done" /\ pc["rank1"] = "done"
    /\ part["rank0"] = "whole" /\ part["rank1"] = "whole"
    /\ result["rank1"].type = "dict"
    /\ result["rank0"].type = "list"

\* C8: when both legs of the combined calls need metadata negotiation
\* (send_metadata true, no hint), each stage has received, once both have returned,
\* exactly what the other sent.
C8_ForcedSequencing ==
    ( /\ Exchanges
      /\ \A p \in Ranks : call[p].send_metadata /\ IsNone(call[p].metadata_recv)
      /\ pc["rank0"] = "done" /\ pc["rank1"] = "done" )
    => \A p \in Ranks : Undeviced(result[p]) = Undeviced(call[Peer(p)].object)

\* a piece that is a device reference "cuda:<s>"
IsReference(piece) == Len(piece) > Len(CudaToken)

\* the number of bytes of the stream before the piece at i
OffsetOf(pieces, i) == Len(Concat(SubSeq(pieces, 1, i - 1)))

\* C9: in the bytes handed to the unpickler, every device reference "cuda:<s>" of
\* the stream received reads "cuda:<d>" at its place, d the local device index,
\* and so resolves to index d.
C9_DeviceIndexCorrection ==
    (rw.done /\ rw.ok)
    => \A i \in 1..Len(rw.pieces) :
          IsReference(rw.pieces[i])
          => LET at == OffsetOf(rw.pieces, i)
                 tag == LocationTag(Cuda(rw.device_index))
             IN /\ at + Len(tag) <= Len(rw.out)
                /\ SubSeq(rw.out, at + 1, at + Len(tag)) = tag
                /\ at + Len(tag) < Len(rw.out) => ~IsDigit(rw.out[at + Len(tag) + 1])

\* the call of p has both peers set
BothPeers(p) ==
    \/ call[p].op \in {"send_forward_recv_backward", "send_backward_recv_forward"}
    \/ /\ call[p].op = "_communicate"
       /\ call[p].args.send_dst # NoRank
       /\ call[p].args.recv_src # NoRank

\* the call of p is one _communicate splits
SplitCall(p) ==
    /\ BothPeers(p)
    /\ SendsMetadata(p) \/ IsNone(call[p].metadata_recv)

\* the sends of the send sub-call of p: the length and the bytes of the metadata
\* when metadata is sent, then the tensors of the payload
SendsOfSubCall(p) ==
    (IF SendsMetadata(p) THEN <<"length", "payload">> ELSE <<>>)
    \o [i \in 1..Len(TensorsOf(call[p].object)) |-> "data"]

\* the rounds of the sends p has issued, in order
RECURSIVE RoundsOfSends(_)
RoundsOfSends(events) ==
    IF events = <<>> THEN <<>>
    ELSE (IF Head(events).event = "isend" THEN <<Head(events).round>> ELSE <<>>)
         \o RoundsOfSends(Tail(events))

\* the operation at i of the log of p has been waited for and synchronised
\* before the entry at j
CompletedBefore(p, i, j) ==
    /\ \E k \in (i + 1)..(j - 1) :
          /\ log[p][k].event = "wait"
          /\ log[p][k].round = log[p][i].round
    /\ \E k \in (i + 1)..(j - 1) :
          /\ log[p][k].event = "synchronize"
          /\ log[p][k].round = log[p][i].round

\* C10: a call of _communicate with both peers set and metadata to send or no
\* hint runs the send-only sub-call to completion (every send of its metadata and
\* data issued, waited for and synchronised) before any receive is issued; the
\* receive-only sub-call uses the hint supplied and then receives no metadata;
\* and the call returns what the receive sub-call returns.
C10_SplitOrdering ==
    \A p \in Ranks :
        SplitCall(p)
        => /\ \A j \in 1..Len(log[p]) :
                 /\ log[p][j].event = "isend" => log[p][j].part = "send"
                 /\ log[p][j].event = "irecv" => log[p][j].part = "recv"
                 /\ log[p][j].part = "send"
                       => \A i \in 1..(j - 1) : log[p][i].part = "send"
                 /\ log[p][j].part = "recv"
                       => /\ RoundsOfSends(SubSeq(log[p], 1, j - 1)) = SendsOfSubCall(p)
                          /\ \A i \in 1..(j - 1) :
                                log[p][i].event = "isend" => CompletedBefore(p, i, j)
                 /\ (log[p][j].part = "recv" /\ ~IsNone(call[p].metadata_recv))
                       => log[p][j].round = "data"
           /\ (part[p] = "recv" /\ pc[p] \in {"data", "data_wait"}
               /\ ~IsNone(call[p].metadata_recv))
                 => metadata_recv[p] = call[p].metadata_recv
           /\ part[p] # "recv" => pc[p] # "done" /\ IsNone(result[p])

\* a split call that was given a hint has returned a tensor from its receive
\* sub-call, after a send sub-call that sent metadata and data
C10_Witness ==
    \E p \in Ranks :
        /\ SplitCall(p)
        /\ ~IsNone(call[p].metadata_recv)
        /\ pc[p] = "done"
        /\ part[p] = "recv"
        /\ result[p].type = "Tensor"
        /\ RoundsOfSends(log[p]) = <<"length", "payload", "data">>
        /\ \E j \in 1..Len(log[p]) : log[p][j].event = "irecv"

\* the failures of the assertions of lines 378-380 and 410
CaseAssertions ==
    {"assert line 378", "assert line 379", "assert line 380", "assert line 410"}

\* p is in the metadata phase of the invocation of _communicate it runs
InMetadataPhase(p) == pc[p] \in {"metadata", "length_wait", "payload_wait"}

\* the events of the log of p of the given part and rounds
EventsOf(p, which, rounds) ==
    {i \in 1..Len(log[p]) : log[p][i].part = which /\ log[p][i].round \in rounds}

\* C11: an invocation of _communicate that is past the split check hands the
\* serialization channel at most one of the send peer and the receive peer: no
\* invocation both sends and receives metadata, and the assertions of lines
\* 378-380 and 410 never fail.
C11_OneDirectionOfMetadata ==
    \A p \in Ranks :
        /\ error[p] \notin CaseAssertions
        /\ InMetadataPhase(p)
              => ~(ChannelSendDst(frame[p]) # NoRank
                   /\ ChannelRecvSrc(frame[p], metadata_recv[p]) # NoRank)
        /\ \A which \in {"whole", "send", "recv"} :
              \A i, j \in EventsOf(p, which, {"length", "payload"}) :
                 ~(log[p][i].event = "isend" /\ log[p][j].event = "irecv")
        /\ (InMetadataPhase(p) /\ ~IsNone(metadata_recv[p]))
              => ChannelRecvSrc(frame[p], metadata_recv[p]) = NoRank

\* a call with both peers is in the metadata phase of its receive sub-call, having
\* sent its metadata in the send sub-call
C11_Witness ==
    \E p \in Ranks :
        /\ BothPeers(p)
        /\ part[p] = "recv"
        /\ pc[p] = "payload_wait"
        /\ \E i \in EventsOf(p, "send", {"payload"}) : log[p][i].event = "isend"
        /\ \E i \in EventsOf(p, "recv", {"payload"}) : log[p][i].event = "irecv"

\* entry i of the log of p is the given event of the given round
IsEvent(p, i, event, round) ==
    /\ log[p][i].event = event
    /\ log[p][i].round = round

\* the payload round of the part of entry i of the log of p has, before entry i,
\* posted its receive, issued its batch, waited on it and synchronised, in this order
PayloadRoundCompletedBefore(p, i) ==
    LET InPart(n, event) ==
            /\ log[p][n].part = log[p][i].part
            /\ IsEvent(p, n, event, "payload")
    IN \E j \in 1..(i - 1) :
          /\ InPart(j, "irecv")
          /\ \E k \in (j + 1)..(i - 1) :
                /\ InPart(k, "batch_isend_irecv")
                /\ \E l \in (k + 1)..(i - 1) :
                      /\ InPart(l, "wait")
                      /\ \E m \in (l + 1)..(i - 1) : InPart(m, "synchronize")

\* buffers has one tensor per tensor of sent, of its shape, dtype and requires_grad
AllocatedFrom(buffers, sent) ==
    /\ Len(buffers) = Len(sent)
    /\ \A i \in 1..Len(sent) :
          /\ buffers[i].shape = sent[i].shape
          /\ buffers[i].dtype = sent[i].dtype
          /\ buffers[i].requires_grad = sent[i].requires_grad

\* C12: in a call that receives without a hint, every data-phase receive buffer is
\* allocated after the payload round of the metadata phase posted its receive,
\* issued its batch, waited on it and synchronised, and the buffers allocated are,
\* in order, one per tensor the sender described, of its shape, dtype and
\* requires_grad.
C12_BuffersFromReceivedMetadata ==
    \A p \in Ranks :
        IsNone(call[p].metadata_recv) =>
            /\ \A i \in 1..Len(log[p]) :
                  IsEvent(p, i, "empty", "data") => PayloadRoundCompletedBefore(p, i)
            /\ (pc[p] = "data_wait" /\ ~IsNone(recv_buffer[p]))
                  => AllocatedFrom(TensorsOf(recv_buffer[p]),
                                   TensorsOf(call[Peer(p)].object))

\* a receive without a hint has allocated two buffers, one of them requiring grad
C12_Witness ==
    \E p \in Ranks :
        /\ IsNone(call[p].metadata_recv)
        /\ pc[p] = "data_wait"
        /\ ~IsNone(recv_buffer[p])
        /\ recv_buffer[p].type = "list"
        /\ Len(recv_buffer[p].items) = 2
        /\ \E i \in 1..2 : recv_buffer[p].items[i].requires_grad
        /\ \E i \in 1..Len(log[p]) : IsEvent(p, i, "empty", "data")

\* the rounds of the receive operations of a log, in order
RECURSIVE RoundsOfReceives(_)
RoundsOfReceives(events) ==
    IF events = <<>> THEN <<>>
    ELSE (IF Head(events).event = "irecv" THEN <<Head(events).round>> ELSE <<>>)
         \o RoundsOfReceives(Tail(events))

\* the metadata p serialised and sent is Tensor, List or Dict metadata
SentBufferTypedMetadata(p) ==
    /\ send_object_tensor[p] # <<>>
    /\ Loads(send_object_tensor[p]).ok
    /\ Loads(send_object_tensor[p]).val.type = "P2PMetadata"
    /\ Loads(send_object_tensor[p]).val.data_type \in {"Tensor", "List", "Dict"}

\* C13: send_forward with metadata on rank0 paired with recv_forward without a
\* hint on rank1, for any payload over any backend: rank0 issues a data-phase send
\* only if the metadata it sent is buffer-typed, and once both calls have returned
\* the rounds of the sends of rank0 are, in order, the rounds of the receives of
\* rank1, and no message is left in flight.
C13_OperationMatching ==
    ( /\ SendsForward
      /\ call["rank0"].send_metadata
      /\ IsNone(call["rank1"].metadata_recv) )
    => /\ (\E i \in 1..Len(log["rank0"]) : IsEvent("rank0", i, "isend", "data"))
              => SentBufferTypedMetadata("rank0")
       /\ (pc["rank0"] = "done" /\ pc["rank1"] = "done")
              => /\ RoundsOfSends(log["rank0"]) = RoundsOfReceives(log["rank1"])
                 /\ \A c \in DOMAIN chan : chan[c] = <<>>

\* the invocation of _communicate p runs has serialised metadata to send
HasSerialisedMetadata(p) ==
    /\ pc[p] \in {"length_wait", "payload_wait", "data", "data_wait"}
    /\ frame[p].send_dst # NoRank
    /\ frame[p].send_metadata

\* C14: the metadata a sending call serialises is buffer-typed (the descriptors of
\* the payload) exactly when the payload is a tensor, a list of tensors or a
\* str-keyed dict of tensors and the send group is of the NCCL backend, and
\* otherwise it is Serialization metadata carrying the whole payload; neither the
\* receive group nor the default group enters the choice.
C14_MetadataKind ==
    \A p \in Ranks :
        HasSerialisedMetadata(p) =>
            LET object == frame[p].object IN
            /\ SentBufferTypedMetadata(p)
                  <=> (FastPathPayload(object) /\ frame[p].send_group.nccl)
            /\ send_object_tensor[p] =
                  IF FastPathPayload(object) /\ frame[p].send_group.nccl
                  THEN Dumps(CreateFastSendMetadata(object))
                  ELSE Dumps(P2PMetadata("Serialization", object))

\* a sending call has serialised Serialization metadata for a payload of tensors,
\* its send group not being of the NCCL backend
C14_Witness ==
    \E p \in Ranks :
        /\ HasSerialisedMetadata(p)
        /\ FastPathPayload(frame[p].object)
        /\ ~frame[p].send_group.nccl
        /\ ~SentBufferTypedMetadata(p)

\* the call of p has a payload and a peer to send it to
SendsPayload(p) ==
    /\ ~IsNone(call[p].object)
    /\ \/ call[p].op \in {"send_forward", "send_backward", "send_forward_recv_backward",
                          "send_backward_recv_forward"}
       \/ call[p].op = "_communicate" /\ call[p].args.send_dst # NoRank

\* p is past the split check and the assertions of the invocation it runs
PastSplitCheck(p) ==
    pc[p] \in {"metadata", "length_wait", "payload_wait", "data", "data_wait", "done"}

\* the part of the call p runs has sent the length and then the bytes of metadata
HasSentMetadata(p) ==
    \E i \in 1..Len(log[p]) :
        /\ log[p][i].part = part[p]
        /\ IsEvent(p, i, "isend", "length")
        /\ \E j \in (i + 1)..Len(log[p]) :
              /\ log[p][j].part = part[p]
              /\ IsEvent(p, j, "isend", "payload")

\* C15: a call made with send_metadata false.  When its payload is not None and not
\* fast-send available, the sending invocation has sent metadata before its data
\* phase all the same, and a call with both peers is split even when it holds a
\* hint.  When its payload is fast-send available, it never sends a length or the
\* bytes of metadata, and no invocation with a send peer enters the metadata phase.
C15_ForcedMetadata ==
    \A p \in Ranks :
        (SendsPayload(p) /\ ~call[p].send_metadata) =>
            IF ~FastPathPayload(call[p].object)
            THEN /\ (pc[p] \in {"data", "data_wait"} /\ frame[p].send_dst # NoRank)
                       => HasSentMetadata(p)
                 /\ (BothPeers(p) /\ PastSplitCheck(p)) => part[p] # "whole"
            ELSE /\ \A i \in 1..Len(log[p]) :
                       log[p][i].event = "isend" => log[p][i].round = "data"
                 /\ (InMetadataPhase(p) /\ PastSplitCheck(p))
                       => frame[p].send_dst = NoRank

\* a combined call made with send_metadata false and a hint, its payload an int, is
\* in the data phase of its send sub-call
C15_Witness ==
    \E p \in Ranks :
        /\ BothPeers(p)
        /\ ~call[p].send_metadata
        /\ ~IsNone(call[p].metadata_recv)
        /\ call[p].object = PyInt(7)
        /\ part[p] = "send"
        /\ pc[p] = "data_wait"
        /\ HasSentMetadata(p)

\* every send and receive of the length round of the part of entry i of the log
\* of p that precedes entry i has been waited for and synchronised before entry i,
\* and there is one
LengthRoundCompletedBefore(p, i) ==
    LET InPart(n, event) ==
            /\ log[p][n].part = log[p][i].part
            /\ IsEvent(p, n, event, "length")
    IN /\ \E j \in 1..(i - 1) : InPart(j, "batch_isend_irecv")
       /\ \A j \in 1..(i - 1) :
             (InPart(j, "isend") \/ InPart(j, "irecv") \/ InPart(j, "batch_isend_irecv"))
                => \E k \in (j + 1)..(i - 1) :
                      /\ InPart(k, "wait")
                      /\ \E m \in (k + 1)..(i - 1) : InPart(m, "synchronize")

\* the messages of the metadata phase p has in flight: every length is the number
\* of bytes p serialised, every payload is those bytes
CarriesSerialisedBytes(p) ==
    \A q \in Ranks : \A n \in 1..Len(chan[<<p, q>>]) :
        LET message == chan[<<p, q>>][n] IN
        /\ message.dtype = "int64" => message.value = <<Len(send_object_tensor[p])>>
        /\ message.dtype = "uint8" =>
              /\ message.value = send_object_tensor[p]
              /\ message.numel = Len(send_object_tensor[p])

\* C16: in _send_recv_serialization_object no operation of the payload round, and
\* no allocation of the byte buffer, comes before the operations of the length
\* round have been waited for and the device synchronised; the byte buffer
\* allocated has the size the sender recorded, the number of bytes it serialised;
\* and the lengths and payloads in flight carry that number and those very bytes.
C16_LengthThenPayload ==
    \A p \in Ranks :
        /\ \A i \in 1..Len(log[p]) :
              log[p][i].round = "payload" => LengthRoundCompletedBefore(p, i)
        /\ send_object_tensor[Peer(p)] # <<>> =>
              \A i \in 1..Len(log[p]) :
                  IsEvent(p, i, "empty", "payload")
                     => log[p][i].numel = Len(send_object_tensor[Peer(p)])
        /\ send_object_tensor[p] # <<>> => CarriesSerialisedBytes(p)
        /\ (pc[p] = "payload_wait" /\ received[p] # <<>>
            /\ send_object_tensor[Peer(p)] # <<>>)
              => received[p][1] = send_object_tensor[Peer(p)]

\* a stage has allocated its byte buffer and received into it the bytes its peer
\* serialised
C16_Witness ==
    \E p \in Ranks :
        /\ pc[p] = "payload_wait"
        /\ received[p] # <<>>
        /\ received[p][1] = send_object_tensor[Peer(p)]
        /\ \E i \in 1..Len(log[p]) :
              /\ IsEvent(p, i, "empty", "payload")
              /\ log[p][i].numel = Len(received[p][1])
              /\ log[p][i].numel > 0

\* the step reads what p received: the length, the bytes, the shape or the tensors
Consumes(p) == received[p] # <<>> /\ received'[p] = <<>>

\* the entry the step adds to the log of p at position n of what it adds
Added(p, n) == log'[p][Len(log[p]) + n]

\* the step adds at least n entries to the log of p
Adds(p, n) == Len(log'[p]) >= Len(log[p]) + n

\* C17 as stated: in every operation, p2p_communicate included, a step that reads
\* what was received does so after every receive of the batch has completed, the
\* requests have been waited for and the device has been synchronised.
C17_ReadAfterWaitAndBarrier ==
    [][\A p \in Ranks :
          Consumes(p) =>
              /\ posted[p] = <<>>
              /\ Adds(p, 2)
              /\ Added(p, 1).event = "wait"
              /\ Added(p, 2).event = "synchronize"]_vars

\* C17: a step that reads what was received does so after every receive of the
\* batch has completed and the requests have been waited for; in the operations
\* built on _communicate the device has been synchronised as well, and in
\* p2p_communicate it has not.
C17_ReadAfterWait ==
    [][\A p \in Ranks :
          Consumes(p) =>
              /\ posted[p] = <<>>
              /\ Adds(p, 1)
              /\ Added(p, 1).event = "wait"
              /\ IF call[p].op = "p2p_communicate"
                 THEN Adds(p, 2) => Added(p, 2).event # "synchronize"
                 ELSE /\ Adds(p, 2)
                      /\ Added(p, 2).event = "synchronize"
                      /\ Added(p, 2).round = Added(p, 1).round]_vars

\* p2p_communicate has waited for its second batch and returned the tensor received
C17_Witness ==
    \E p \in Ranks :
        /\ pc[p] = "done"
        /\ ~IsNone(result[p])
        /\ \E i \in 1..Len(log[p]) : IsEvent(p, i, "wait", "data")
        /\ call[p].op = "p2p_communicate"

\* the entries of the data round of the part of the call p runs, in order
DataRound(p) ==
    LET OfRound(entry) == entry.round = "data" /\ entry.part = part[p]
    IN SelectSeq(log[p], OfRound)

\* the descriptors of Tensor, List or Dict metadata, in order
DescriptorsOf(metadata) ==
    IF metadata.data_type = "Tensor" THEN <<metadata.content>>
    ELSE metadata.content.items

\* the tensors the invocation p runs has to send, in payload order
SendBuffers(p) ==
    IF frame[p].send_dst # NoRank THEN TensorsOf(frame[p].object) ELSE <<>>

\* the buffers the invocation p runs has allocated, in order
AllocatedBuffers(p) ==
    IF IsNone(recv_buffer[p]) THEN <<>> ELSE TensorsOf(recv_buffer[p])

\* the buffers the invocation p runs receives into
ReceiveBuffers(p) ==
    IF frame[p].recv_src # NoRank THEN AllocatedBuffers(p) ELSE <<>>

\* the entries of a data round that allocates, then queues one send per send
\* buffer, then one receive per receive buffer, and issues one batch when there is
\* an operation
OneBatch(p) ==
    LET sends == SendBuffers(p)
        recvs == ReceiveBuffers(p)
        Entry(event, numel) ==
            [event |-> event, round |-> "data", part |-> part[p], numel |-> numel]
    IN [i \in 1..Len(AllocatedBuffers(p)) |->
            Entry("empty", Numel(AllocatedBuffers(p)[i]))]
       \o [i \in 1..Len(sends) |-> Entry("isend", Numel(sends[i]))]
       \o [i \in 1..Len(recvs) |-> Entry("irecv", Numel(recvs[i]))]
       \o (IF Len(sends) + Len(recvs) > 0
           THEN <<Entry("batch_isend_irecv", Len(sends) + Len(recvs))>>
           ELSE <<>>)

\* C18: an invocation of _batch_send_recv_tensor that has issued its operations
\* has allocated its receive buffers first, one per descriptor in descriptor
\* order, then queued one send per tensor of the payload in payload order and one
\* receive per buffer in buffer order, and issued them all in one batch, the sends
\* and the receives of a combined call that is not split together; with no
\* operation queued it has issued no batch.
C18_SingleBatch ==
    \A p \in Ranks :
        pc[p] = "data_wait" =>
            /\ DataRound(p) = OneBatch(p)
            /\ ~IsNone(recv_buffer[p]) =>
                  /\ Len(AllocatedBuffers(p)) = Len(DescriptorsOf(metadata_recv[p]))
                  /\ \A i \in 1..Len(AllocatedBuffers(p)) :
                        /\ AllocatedBuffers(p)[i].shape
                              = DescriptorsOf(metadata_recv[p])[i].shape
                        /\ AllocatedBuffers(p)[i].dtype
                              = DescriptorsOf(metadata_recv[p])[i].dtype
            /\ Len(posted[p]) + Len(received[p]) = Len(ReceiveBuffers(p))

\* a combined call that is not split has, in one batch, sent its tensor and posted
\* the receives of two buffers
C18_Witness ==
    \E p \in Ranks :
        /\ BothPeers(p)
        /\ part[p] = "whole"
        /\ pc[p] = "data_wait"
        /\ Len(SendBuffers(p)) >= 1
        /\ Len(ReceiveBuffers(p)) = 2
        /\ DataRound(p)[Len(DataRound(p))].event = "batch_isend_irecv"
        /\ DataRound(p)[Len(DataRound(p))].numel = Len(SendBuffers(p)) + 2

\* the step on which the invocation of _communicate p runs returns to the caller
Returns(p) == pc[p] = "data_wait" /\ pc'[p] = "done"

\* the buffers of the invocation p runs, holding what was received into them
ReturnedBuffers(p) == Filled(recv_buffer[p], received[p])

\* value is the dict of the keys of the descriptors, each with the buffer at its
\* position
PairsKeysWithBuffers(value, descriptors, buffers) ==
    /\ value.type = "dict"
    /\ Len(value.items) = Len(descriptors)
    /\ Len(buffers) = Len(descriptors)
    /\ \A i \in 1..Len(descriptors) :
          value.items[i] = Item(descriptors[i].key, buffers[i])

\* C19: what _communicate returns.  A call without a receive peer returns None.
\* A call with a receive peer returns, for Serialization metadata, the value the
\* metadata carries, having posted no receive in the data round; for Tensor and
\* List metadata, the buffer or the list of buffers received into; for Dict
\* metadata, the dict that pairs the key of each descriptor with the buffer at its
\* position.
C19_ResultReconstruction ==
    [][\A p \in Ranks :
          Returns(p) =>
              IF frame[p].recv_src = NoRank THEN IsNone(result'[p])
              ELSE IF metadata_recv[p].data_type = "Serialization"
              THEN /\ result'[p] = metadata_recv[p].content
                   /\ IsNone(recv_buffer[p])
                   /\ \A i \in 1..Len(DataRound(p)) : DataRound(p)[i].event # "irecv"
              ELSE IF metadata_recv[p].data_type \in {"Tensor", "List"}
              THEN result'[p] = ReturnedBuffers(p)
              ELSE PairsKeysWithBuffers(result'[p], DescriptorsOf(metadata_recv[p]),
                                        TensorsOf(ReturnedBuffers(p)))]_vars

\* position n of the stream is the device-index digit of a device reference
IsIndexDigitOfReference(pieces, n) ==
    \E i \in 1..Len(pieces) :
        /\ IsReference(pieces[i])
        /\ n = OffsetOf(pieces, i) + Len(CudaToken) + 2

\* C20: the rewriting of a received byte stream under a local device index does
\* not fail, leaves the length of the stream as it was, changes no byte but the
\* device-index digit of a device reference "cuda:<s>" (not the bytes after a
\* bare "cuda", not a stream that ends with one), and writes an ASCII digit.
C20_RewriteFrame ==
    rw.done =>
        /\ rw.ok
        /\ Len(rw.out) = Len(rw.buf)
        /\ \A n \in 1..Len(rw.buf) :
              rw.out[n] # rw.buf[n] =>
                  /\ IsIndexDigitOfReference(rw.pieces, n)
                  /\ IsDigit(rw.out[n])

\* the stage whose call sends, in a pair of a send-only and a receive-only call
SenderOf ==
    IF call["rank0"].op \in {"send_forward", "send_backward"} THEN "rank0" ELSE "rank1"

\* a send-only call and the receive-only call that matches it: send_forward with
\* recv_forward or send_backward with recv_backward, the receiver without a hint
\* when the sender sends metadata, and with the metadata of the payload as its hint
\* when the sender sends none
MatchedOneWayPair ==
    LET sender == SenderOf
        receiver == Peer(SenderOf)
    IN /\ \/ call[sender].op = "send_forward" /\ call[receiver].op = "recv_forward"
          \/ call[sender].op = "send_backward" /\ call[receiver].op = "recv_backward"
       /\ Picklable(call[sender].object)
       /\ \/ call[sender].send_metadata /\ IsNone(call[receiver].metadata_recv)
          \/ /\ ~call[sender].send_metadata
             /\ FastPathPayload(call[sender].object)
             /\ call[receiver].metadata_recv = CreateFastSendMetadata(call[sender].object)

\* C21: a send-only call and the matching receive-only call of the neighbour, over
\* NCCL groups and for any picklable payload, both return, whatever the
\* interleaving of the steps of the two stages: neither call ends by raising, and
\* the two stages come to a stop, no step and no delivery left to take, only when
\* both calls have returned.
C21_MatchedPairTerminates ==
    (MatchedOneWayPair /\ env.p2p_nccl /\ env.default_nccl) =>
        /\ \A p \in Ranks : pc[p] # "raised"
        /\ ~(ENABLED Next) => (pc["rank0"] = "done" /\ pc["rank1"] = "done")

\* p has called an operation of PipelineP2PCommunication built on _communicate
\* and runs the invocation of _communicate the operation made
InEndpointCall(p) ==
    /\ call[p].op \in {"recv_forward", "recv_backward", "send_forward", "send_backward",
                       "send_forward_recv_backward", "send_backward_recv_forward"}
    /\ pc[p] # "ready"
    /\ part[p] = "whole"

\* the peer and the group the invocation of p names
PeerNamed(p) ==
    IF frame[p].send_dst # NoRank THEN frame[p].send_dst ELSE frame[p].recv_src

GroupRequested(p) ==
    IF ~IsNone(frame[p].send_group) THEN frame[p].send_group ELSE frame[p].recv_group

\* the operations of the two stages are a send with its receive, or the two
\* combined operations
MatchingOperations ==
    \/ SendsForward
    \/ SendsBackward
    \/ Exchanges

\* C22: the invocation of _communicate a combined operation makes has the
\* neighbour (or the rank passed) as send peer and as receive peer and one group as
\* send group and as receive group; and the invocations two matching operations of
\* the two stages make each name the other stage as peer and hold the group
\* requested for the same ordered pair of ranks.
C22_PeerAndGroupPairing ==
    /\ \A p \in Ranks :
          (InEndpointCall(p) /\ BothPeers(p)) =>
              /\ frame[p].send_dst = frame[p].recv_src
              /\ frame[p].send_dst = RankOr(call[p].rank, Peer(p))
              /\ frame[p].send_group = frame[p].recv_group
              /\ ~IsNone(frame[p].send_group)
    /\ (MatchingOperations /\ \A p \in Ranks : InEndpointCall(p)) =>
          /\ \A p \in Ranks : PeerNamed(p) = Peer(p)
          /\ GroupRequested("rank0").pair = GroupRequested("rank1").pair
          /\ GroupRequested("rank0") = GroupRequested("rank1")

\* rank0 has called send_forward_recv_backward and rank1
\* send_backward_recv_forward, and each runs the invocation its operation made
C22_Witness ==
    /\ Exchanges
    /\ \A p \in Ranks :
          /\ InEndpointCall(p)
          /\ pc[p] = "communicate"
          /\ frame[p].send_dst = Peer(p)
          /\ frame[p].recv_src = Peer(p)

\* the identities in a sequence of identities
IdentitiesOf(tensors) == {tensors[i] : i \in 1..Len(tensors)}

\* no identity occurs twice in the sequence
Distinct(tensors) ==
    \A i, j \in 1..Len(tensors) : tensors[i] = tensors[j] => i = j

\* C23: on every stage, the tensors a call returned were created during that
\* call, each is returned once, no tensor is returned by two calls, and none is a
\* tensor of the payload being sent, also when the call is made again with the
\* same hint; the buffers of the call running are none of them either; and a call
\* that starts holds no metadata, no buffer and no posted operation of the call
\* before it.
C23_FreshReceiveBuffers ==
    \A p \in Ranks :
        LET returned == heap[p].returned IN
        /\ \A k \in 1..Len(returned) :
              /\ Distinct(returned[k].tensors)
              /\ \A t \in IdentitiesOf(returned[k].tensors) :
                    /\ t > returned[k].base
                    /\ t <= returned[k].top
                    /\ t \notin IdentitiesOf(heap[p].payload)
                    /\ t \notin IdentitiesOf(heap[p].buffers)
              /\ \A l \in 1..Len(returned) :
                    k # l => IdentitiesOf(returned[k].tensors)
                                \cap IdentitiesOf(returned[l].tensors) = {}
        /\ Distinct(heap[p].buffers)
        /\ IdentitiesOf(heap[p].buffers) \cap IdentitiesOf(heap[p].payload) = {}
        /\ \A t \in IdentitiesOf(heap[p].buffers) : t > heap[p].base
        /\ pc[p] = "ready" =>
              /\ IsNone(metadata_recv[p])
              /\ IsNone(recv_buffer[p])
              /\ posted[p] = <<>>
              /\ heap[p].buffers = <<>>

\* a stage that sends two tensors and holds a hint has made its call twice, and
\* each call has returned a buffer
C23_Witness ==
    \E p \in Ranks :
        /\ Len(heap[p].returned) = 2
        /\ ~IsNone(call[p].metadata_recv)
        /\ Len(heap[p].payload) = 2
        /\ \A k \in 1..2 : Len(heap[p].returned[k].tensors) >= 1

=============================================================================
